---- MODULE Spec2Model ----
(***************************************************************************)
(* A model of the capture-website-screenshots CLI (src/unnamed/part_001):  *)
(* the scroll-stabilization loop of the page-preparation step, the         *)
(* breadth-first crawl, the output-key resolver and the seed resolver.     *)
(*                                                                         *)
(* The four parts are separate state machines over disjoint groups of      *)
(* variables.  Each has its own specification; under one specification     *)
(* the variables of the other machines stay at their initial values.       *)
(***************************************************************************)
EXTENDS Integers, Sequences, FiniteSets, TLC

VARIABLES
    \* ---- triggerDeferredContent (scroll-stabilization) ----
    spc,            \* position in triggerDeferredContent
    innerHeight,    \* window.innerHeight of the page under capture
    maxSeenHeight,  \* let maxSeenHeight
    stableRounds,   \* let stableRounds
    round,          \* the for-loop counter
    remaining,      \* targetHeight - 2 - (window.scrollY + window.innerHeight)
    previousYUnset, \* TRUE while previousY is still -1
    lastHeight,     \* const nextHeight of the round that ended last, -1 once another has begun
    \* ---- crawlTargets (breadth-first crawl) ----
    cpc,            \* position in crawlTargets: "idle", "loop", "done", "failed"
    seedUrls,       \* the seedUrls argument
    settings,       \* the settings argument: crawlDepth, maxPages, sameOriginOnly
    allowedOrigins, \* const allowedOrigins
    maxPages,       \* const maxPages
    discovered,     \* const discovered
    discoveredSet,  \* const discoveredSet
    queue,          \* const queue
    navFailed,      \* history: the URLs whose page.goto threw
    pageLinks,      \* history: <<page, link>> for every http(s) link a page served
    placed,         \* history: every item ever placed in queue
    visits,         \* history: the items shifted off the queue, in order, with what came of each
    \* ---- resolveCaptureTargets (output keys) ----
    keyUrls,        \* the target URLs mapped so far, in order
    seenOutputKeys, \* const seenOutputKeys
    outputKeys,     \* the outputKey of each target mapped so far
    clock,          \* the last value Date.now() returned
    \* ---- resolveSeedUrls ----
    options,        \* the options argument: positionalUrls, urlFiles
    seedResult,     \* what resolveSeedUrls did: pending, returned urls, or threw
    \* ---- extractUrlsFromText ----
    content,        \* the content argument, as its lines
    extracted,      \* what extractUrlsFromText returned, once it has
    \* ---- normalizeCaptureUrl, applied to an input and to its own result ----
    rawUrl,         \* the value argument
    normalizedOnce, \* normalizeCaptureUrl(value): pending, returned or threw
    normalizedTwice, \* normalizeCaptureUrl of the returned URL: pending, returned or threw
    \* ---- parseCliArguments and the start of run ----
    argv,           \* process.argv.slice(2)
    cliResult,      \* what parseCliArguments did: pending, returned options, or threw
    runError,       \* the error run() rejected with, "" when it has not
    rpc,            \* position in run: idle, start, parsed, rejected, launched, exited
    usagePrinted,   \* printHelp has written the usage text
    browserLaunched,\* chromium.launch has been called
    errorPrinted,   \* the message console.error wrote, if any
    exitCode,       \* the exit code of the process, -1 while it runs
    \* ---- run, from the browser launch on, and captureUrl ----
    kpc,            \* position in run and captureUrl
    crawlRequested, \* options.crawl
    targetCount,    \* targets.length, 0 until the targets are resolved
    target,         \* the index of the target being captured
    profile,        \* the index of the capture profile being used
    browserOpen,    \* the browser is launched and not yet closed
    openContexts,   \* the browsing contexts created and not yet closed
    leftOpen,       \* the contexts that were open when browser.close() was called
    written,        \* the screenshots written: <<target, profile>>
    captureResults, \* const results of run, with the captures of the current captureUrl call
    printedResults, \* the screenshots printSummary has reported
    runFailed,      \* an error is propagating out of run
    captureExit,    \* the exit code of the process, -1 while it runs
    \* ---- preparePageForCapture ----
    ppc,            \* position in preparePageForCapture: the call awaited next
    pageBehaviour,  \* how the page answers each awaited call
    prepareRaised,  \* the call whose rejection left preparePageForCapture, "" when none has
    \* ---- buildExcludedSelectors ----
    excludeOptions, \* the options argument: excludeClasses, excludeIds
    builtSelectors  \* what buildExcludedSelectors returned, once it has

scrollVars == <<spc, innerHeight, maxSeenHeight, stableRounds, round, remaining, previousYUnset,
                lastHeight>>

crawlVars == <<cpc, seedUrls, settings, allowedOrigins, maxPages, discovered, discoveredSet,
               queue, navFailed, pageLinks, placed, visits>>

keyVars == <<keyUrls, seenOutputKeys, outputKeys, clock>>

seedVars == <<options, seedResult>>

extractVars == <<content, extracted>>

normalizeVars == <<rawUrl, normalizedOnce, normalizedTwice>>

cliVars == <<argv, cliResult, runError, rpc, usagePrinted, browserLaunched, errorPrinted, exitCode>>

captureVars == <<kpc, crawlRequested, targetCount, target, profile, browserOpen, openContexts,
                 leftOpen, written, captureResults, printedResults, runFailed, captureExit>>

prepareVars == <<ppc, pageBehaviour, prepareRaised>>

selectorVars == <<excludeOptions, builtSelectors>>

vars == <<scrollVars, crawlVars, keyVars, seedVars, extractVars, normalizeVars, cliVars, captureVars, prepareVars, selectorVars>>

notScroll == <<crawlVars, keyVars, seedVars, extractVars, normalizeVars, cliVars, captureVars, prepareVars, selectorVars>>

notCrawl == <<scrollVars, keyVars, seedVars, extractVars, normalizeVars, cliVars, captureVars, prepareVars, selectorVars>>

notKeys == <<scrollVars, crawlVars, seedVars, extractVars, normalizeVars, cliVars, captureVars, prepareVars, selectorVars>>

notSeeds == <<scrollVars, crawlVars, keyVars, extractVars, normalizeVars, cliVars, captureVars, prepareVars, selectorVars>>

notExtract == <<scrollVars, crawlVars, keyVars, seedVars, normalizeVars, cliVars, captureVars, prepareVars, selectorVars>>

notNormalize == <<scrollVars, crawlVars, keyVars, seedVars, extractVars, cliVars, captureVars, prepareVars, selectorVars>>

notCli == <<scrollVars, crawlVars, keyVars, seedVars, extractVars, normalizeVars, captureVars, prepareVars, selectorVars>>

notCapture == <<scrollVars, crawlVars, keyVars, seedVars, extractVars, normalizeVars, cliVars, prepareVars, selectorVars>>

notPrepare == <<scrollVars, crawlVars, keyVars, seedVars, extractVars, normalizeVars, cliVars, captureVars, selectorVars>>

notSelectors == <<scrollVars, crawlVars, keyVars, seedVars, extractVars, normalizeVars, cliVars, captureVars, prepareVars>>

(***************************************************************************)
(* Generic helpers.                                                        *)
(***************************************************************************)
Max(a, b) == IF a >= b THEN a ELSE b

Min(a, b) == IF a <= b THEN a ELSE b

Range(s) == {s[i] : i \in 1..Len(s)}

IsDuplicateFree(s) == \A i, j \in 1..Len(s) : s[i] = s[j] => i = j

\* String.prototype.endsWith
StartsWith(str, prefix) ==
    Len(str) >= Len(prefix) /\ SubSeq(str, 1, Len(prefix)) = prefix

EndsWith(str, suffix) ==
    /\ Len(str) >= Len(suffix)
    /\ SubSeq(str, Len(str) - Len(suffix) + 1, Len(str)) = suffix

UpperAlphabet == "ABCDEFGHIJKLMNOPQRSTUVWXYZ"

LowerAlphabet == "abcdefghijklmnopqrstuvwxyz"

Digits == "0123456789"

CharAt(str, i) == SubSeq(str, i, i)

CharsOf(str) == {CharAt(str, i) : i \in 1..Len(str)}

UpperChars == CharsOf(UpperAlphabet)

LowerOf ==
    [c \in UpperChars |->
        CharAt(LowerAlphabet, CHOOSE i \in 1..Len(UpperAlphabet) : CharAt(UpperAlphabet, i) = c)]

LowerChar(c) == IF c \in UpperChars THEN LowerOf[c] ELSE c

\* String.prototype.toLowerCase
RECURSIVE ToLowerCaseFrom(_, _)
ToLowerCaseFrom(str, i) ==
    IF i > Len(str) THEN ""
    ELSE LowerChar(CharAt(str, i)) \o ToLowerCaseFrom(str, i + 1)

ToLowerCase(str) == ToLowerCaseFrom(str, 1)

AlnumChars == CharsOf(LowerAlphabet) \cup CharsOf(Digits)

LetterChars == CharsOf(LowerAlphabet) \cup CharsOf(UpperAlphabet)

WhitespaceChars == {" ", "\t", "\n", "\r"}

\* The first position of str that holds one of chars, 0 when there is none.
FirstIndexOf(str, chars) ==
    LET hits == {i \in 1..Len(str) : CharAt(str, i) \in chars}
    IN  IF hits = {} THEN 0 ELSE CHOOSE i \in hits : \A j \in hits : i <= j

\* String.prototype.trim
Trim(str) ==
    LET kept == {i \in 1..Len(str) : CharAt(str, i) \notin WhitespaceChars}
    IN  IF kept = {} THEN ""
        ELSE SubSeq(str, CHOOSE i \in kept : \A j \in kept : i <= j,
                         CHOOSE i \in kept : \A j \in kept : j <= i)

\* str.slice(from - 1): the text from position from on.
From(str, from) == SubSeq(str, from, Len(str))

\* The text of str before position at, all of it when at = 0.
CutAt(str, at) == IF at = 0 THEN str ELSE SubSeq(str, 1, at - 1)

\* The text of str before the first of chars, all of it when it holds none.
Before(str, chars) == CutAt(str, FirstIndexOf(str, chars))

\* .replace(/[^a-z0-9]+/g, "-"): every run of other characters becomes one "-".
\* i is the position reached, inRun whether the character before it was replaced.
RECURSIVE ReplaceNonAlnumRuns(_, _, _)
ReplaceNonAlnumRuns(str, i, inRun) ==
    IF i > Len(str) THEN ""
    ELSE IF CharAt(str, i) \in AlnumChars
         THEN CharAt(str, i) \o ReplaceNonAlnumRuns(str, i + 1, FALSE)
         ELSE (IF inRun THEN "" ELSE "-") \o ReplaceNonAlnumRuns(str, i + 1, TRUE)

\* .replace(/^-+|-+$/g, ""): drop the leading and the trailing hyphens.
TrimHyphens(str) ==
    LET kept == {i \in 1..Len(str) : CharAt(str, i) # "-"}
    IN  IF kept = {} THEN ""
        ELSE SubSeq(str, CHOOSE i \in kept : \A j \in kept : i <= j,
                         CHOOSE i \in kept : \A j \in kept : j <= i)

\* value.toLowerCase().replace(/[^a-z0-9]+/g, "-").replace(/^-+|-+$/g, "")
FilenameSafe(value) == TrimHyphens(ReplaceNonAlnumRuns(ToLowerCase(value), 1, FALSE))

\* uniqueOrdered: drop repeated values, keep the first occurrence of each.
\* values[i] is pushed unless an earlier position put the same value in seen.
RECURSIVE UniqueOrderedFrom(_, _)
UniqueOrderedFrom(values, i) ==
    IF i > Len(values) THEN <<>>
    ELSE (IF \E j \in 1..(i - 1) : values[j] = values[i] THEN <<>> ELSE <<values[i]>>)
            \o UniqueOrderedFrom(values, i + 1)

uniqueOrdered(values) == UniqueOrderedFrom(values, 1)

(***************************************************************************)
(* triggerDeferredContent: the scroll-stabilization step.                  *)
(*                                                                         *)
(* Every decision of the inner while loop compares differences of pixel    *)
(* quantities only (scrollY + innerHeight against targetHeight - 2,        *)
(* scrollY against previousY), so the inner loop is modelled relative to   *)
(* the viewport: remaining is the distance the viewport bottom still has   *)
(* to travel before the while condition turns false.  This keeps the       *)
(* state finite for a page whose height keeps growing.  The height read    *)
(* at the end of a round (nextHeight) is an input of the page.             *)
(***************************************************************************)
DEFAULT_FULLLOAD_STABLE_ROUNDS == 3

DEFAULT_FULLLOAD_MAX_ROUNDS == 36

MinScrollStep == 220

HeightTolerance == 2

\* Largest document height (px) a page reports at the end of a round.
MaxHeight == 38

\* Largest distance (px) between the viewport bottom and the scroll target.
MaxRemaining == 700

Heights == 0..MaxHeight

InnerHeights == {200, 300}

\* The distance to the target when a round starts (targetHeight = readHeight()).
StartRemaining == {r \in {-2, 0, 1, 219, 500} : r <= MaxRemaining}

\* const step = Math.max(220, Math.floor(window.innerHeight * 0.9))
ScrollStep(ih) == Max(MinScrollStep, (ih * 9) \div 10)

\* What window.scrollBy(0, step) moves the viewport by: the whole step, or up to
\* the end of the document; 0 when the page does not scroll (scroll lock).
ScrollMoves(ih, rem) == {0, Min(ScrollStep(ih), rem + HeightTolerance)}

\* By how much readHeight() exceeds targetHeight after the 120 ms delay: an
\* infinite-scroll page appends a batch of content when it is scrolled.
PageGrowth(ih) == {0, ScrollStep(ih), 2 * ScrollStep(ih)}

ScrollIdle ==
    /\ spc = "idle"
    /\ innerHeight = 0
    /\ maxSeenHeight = 0
    /\ stableRounds = 0
    /\ round = 0
    /\ remaining = 0
    /\ previousYUnset = TRUE
    /\ lastHeight = -1

ScrollStartState ==
    /\ spc = "start"
    /\ innerHeight \in InnerHeights
    /\ maxSeenHeight = 0
    /\ stableRounds = 0
    /\ round = 0
    /\ remaining = 0
    /\ previousYUnset = TRUE
    /\ lastHeight = -1

\* let maxSeenHeight = readHeight(); let stableRounds = 0; round = 0
ScrollStart ==
    /\ spc = "start"
    /\ \E h \in Heights : maxSeenHeight' = h
    /\ stableRounds' = 0
    /\ round' = 0
    /\ spc' = "for"
    /\ UNCHANGED <<innerHeight, remaining, previousYUnset, lastHeight>>
    /\ UNCHANGED notScroll

\* for (...; round < maxRounds; ...) { let targetHeight = readHeight(); let previousY = -1;
RoundBegin ==
    /\ spc = "for"
    /\ round < DEFAULT_FULLLOAD_MAX_ROUNDS
    /\ \E r \in StartRemaining : remaining' = r
    /\ previousYUnset' = TRUE
    /\ lastHeight' = -1
    /\ spc' = "while"
    /\ UNCHANGED <<innerHeight, maxSeenHeight, stableRounds, round>>
    /\ UNCHANGED notScroll

\* The for loop ends because round reached maxRounds.
RoundCapReached ==
    /\ spc = "for"
    /\ round >= DEFAULT_FULLLOAD_MAX_ROUNDS
    /\ spc' = "toTop"
    /\ UNCHANGED <<innerHeight, maxSeenHeight, stableRounds, round, remaining, previousYUnset,
                   lastHeight>>
    /\ UNCHANGED notScroll

\* One iteration of the inner while loop: scrollBy, delay(120), the previousY test,
\* targetHeight = Math.max(targetHeight, readHeight()).
InnerScrollStep ==
    /\ spc = "while"
    /\ remaining > 0
    /\ \E moved \in ScrollMoves(innerHeight, remaining), grown \in PageGrowth(innerHeight) :
          IF moved = 0 /\ ~previousYUnset
          THEN /\ spc' = "endRound"
               /\ UNCHANGED <<remaining, previousYUnset>>
          ELSE /\ remaining - moved + grown <= MaxRemaining
               /\ remaining' = remaining - moved + grown
               /\ previousYUnset' = FALSE
               /\ spc' = "while"
    /\ UNCHANGED <<innerHeight, maxSeenHeight, stableRounds, round, lastHeight>>
    /\ UNCHANGED notScroll

\* The while condition is false: the viewport bottom is within 2px of targetHeight.
InnerScrollExit ==
    /\ spc = "while"
    /\ remaining <= 0
    /\ spc' = "endRound"
    /\ UNCHANGED <<innerHeight, maxSeenHeight, stableRounds, round, remaining, previousYUnset,
                   lastHeight>>
    /\ UNCHANGED notScroll

\* The counter of a comparison without the 2px tolerance.
NextStableRoundsNoTolerance(nextHeight, maxSeen, stable) ==
    IF nextHeight <= maxSeen THEN stable + 1 ELSE 0

\* The stable-round counter after a round that read nextHeight.
NextStableRounds(nextHeight, maxSeen, stable) ==
    IF nextHeight <= maxSeen + HeightTolerance THEN stable + 1 ELSE 0

\* The recorded maximum after a round that read nextHeight.
NextMaxSeenHeight(nextHeight, maxSeen) ==
    IF nextHeight <= maxSeen + HeightTolerance THEN maxSeen ELSE nextHeight

\* scrollTo(0, targetHeight); delay(380); nextHeight = readHeight(); the update of
\* stableRounds / maxSeenHeight; the break test; round += 1.
\* targetHeight and previousY are declared in the loop body and end with it.
RoundEnd ==
    /\ spc = "endRound"
    /\ \E nextHeight \in Heights :
          /\ stableRounds' = NextStableRounds(nextHeight, maxSeenHeight, stableRounds)
          /\ maxSeenHeight' = NextMaxSeenHeight(nextHeight, maxSeenHeight)
          /\ lastHeight' = nextHeight
    /\ IF stableRounds' >= DEFAULT_FULLLOAD_STABLE_ROUNDS
       THEN /\ spc' = "toTop"
            /\ round' = round
       ELSE /\ spc' = "for"
            /\ round' = round + 1
    /\ remaining' = 0
    /\ previousYUnset' = TRUE
    /\ UNCHANGED innerHeight
    /\ UNCHANGED notScroll

\* window.scrollTo(0, 0) and the return of page.evaluate.
ScrollToTop ==
    /\ spc = "toTop"
    /\ spc' = "done"
    /\ UNCHANGED <<innerHeight, maxSeenHeight, stableRounds, round, remaining, previousYUnset,
                   lastHeight>>
    /\ UNCHANGED notScroll

ScrollNext ==
    \/ ScrollStart
    \/ RoundBegin
    \/ RoundCapReached
    \/ InnerScrollStep
    \/ InnerScrollExit
    \/ RoundEnd
    \/ ScrollToTop

(***************************************************************************)
(* URLs.  A parsed URL is a record of the components the program reads:    *)
(* protocol, host, pathname and hash.  Its serialization (URL.toString) is *)
(* the concatenation of the components, so two normalized URLs are the     *)
(* same string exactly when they are the same record.  An href is the      *)
(* same record with protocol and host empty when it is relative.           *)
(***************************************************************************)
Url(protocol, host, pathname, hash) ==
    [protocol |-> protocol, host |-> host, pathname |-> pathname, hash |-> hash]

\* URL.prototype.toString
UrlToString(u) == u.protocol \o "//" \o u.host \o u.pathname \o u.hash

\* URL.prototype.origin
Origin(u) == u.protocol \o "//" \o u.host

SUPPORTED_PROTOCOLS == {"http:", "https:"}

\* The extensions of ASSET_EXTENSION_PATTERN.
AssetExtensions ==
    {"avif", "bmp", "css", "csv", "gif", "ico", "jpeg", "jpg", "js", "json", "map", "mp3",
     "mp4", "pdf", "png", "svg", "txt", "webm", "webp", "woff", "woff2"}

\* The position of the last "." of str, 0 when it has none.
LastDot(str) ==
    LET dots == {i \in 1..Len(str) : CharAt(str, i) = "."}
    IN  IF dots = {} THEN 0 ELSE CHOOSE i \in dots : \A j \in dots : j <= i

\* ASSET_EXTENSION_PATTERN.test(pathname): the text after the last "." is one of
\* the extensions, compared case-insensitively (no extension holds a ".").
MatchesAssetExtension(pathname) ==
    /\ LastDot(pathname) > 0
    /\ ToLowerCase(SubSeq(pathname, LastDot(pathname) + 1, Len(pathname))) \in AssetExtensions

isLikelyHtmlPage(url) == ~MatchesAssetExtension(url.pathname)

\* A variant that keeps the hash of the URL.
KeepDiscoveredUrl(url) == url

\* normalizeDiscoveredUrl: re-parse the URL and drop the hash.
normalizeDiscoveredUrl(url) == [url EXCEPT !.hash = ""]

\* href.startsWith("#") || startsWith("mailto:") || startsWith("tel:") || startsWith("javascript:")
IsSkippedHref(href) ==
    \/ (href.protocol = "" /\ href.host = "" /\ href.pathname = "" /\ href.hash # "")
    \/ href.protocol \in {"mailto:", "tel:", "javascript:"}

\* new URL(href, baseUrl) for an absolute href or a root-relative path.
ResolveHref(href, baseUrl) ==
    IF href.protocol # "" THEN href
    ELSE [protocol |-> baseUrl.protocol,
          host     |-> baseUrl.host,
          pathname |-> IF href.pathname = "" THEN baseUrl.pathname ELSE href.pathname,
          hash     |-> href.hash]

\* The filters without the same-origin test.
PassesLinkFiltersAnyOrigin(parsed, allowed, sameOriginOnly) ==
    /\ parsed.protocol \in SUPPORTED_PROTOCOLS
    /\ isLikelyHtmlPage(parsed)

\* The three filters applied to a parsed link inside collectLinksFromPage.
PassesLinkFilters(parsed, allowed, sameOriginOnly) ==
    /\ parsed.protocol \in SUPPORTED_PROTOCOLS
    /\ ~(sameOriginOnly /\ Origin(parsed) \notin allowed)
    /\ isLikelyHtmlPage(parsed)

\* The body of the for loop of collectLinksFromPage, over the hrefs of the page.
RECURSIVE ResolvedLinks(_, _, _, _)
ResolvedLinks(hrefs, baseUrl, allowed, sameOriginOnly) ==
    IF hrefs = <<>> THEN <<>>
    ELSE LET href == Head(hrefs)
             rest == ResolvedLinks(Tail(hrefs), baseUrl, allowed, sameOriginOnly)
             parsed == ResolveHref(href, baseUrl)
         IN  IF IsSkippedHref(href) THEN rest
             ELSE IF PassesLinkFilters(parsed, allowed, sameOriginOnly)
                  THEN <<normalizeDiscoveredUrl(parsed)>> \o rest
                  ELSE rest

collectLinksFromPage(hrefs, baseUrl, allowed, sameOriginOnly) ==
    uniqueOrdered(ResolvedLinks(hrefs, baseUrl, allowed, sameOriginOnly))

(***************************************************************************)
(* normalizeCaptureUrl and the URL parser it calls.  Raw inputs are        *)
(* strings; the inputs explored hold no query, userinfo or port that the   *)
(* parser would rewrite.                                                   *)
(***************************************************************************)
SchemeChars == LetterChars \cup CharsOf(Digits) \cup {"+", ".", "-"}

HostChars == LetterChars \cup CharsOf(Digits) \cup {".", "-", ":"}

\* The first ":" of str is at colon and only scheme characters precede it.
SchemeEndsAt(str, colon) ==
    /\ colon >= 2
    /\ CharAt(str, 1) \in LetterChars
    /\ \A i \in 2..(colon - 1) : CharAt(str, i) \in SchemeChars

\* /^[a-zA-Z][a-zA-Z0-9+.-]*:/.test(str)
HasSchemePrefix(str) == SchemeEndsAt(str, FirstIndexOf(str, {":"}))

\* The schemes whose URLs have a host ("special" schemes of the URL standard).
HostSchemes == {"http:", "https:", "ftp:"}

InvalidUrl == [valid |-> FALSE, protocol |-> "", host |-> "", pathname |-> "", hash |-> ""]

\* The text of str without its leading "/" characters.
RECURSIVE StripLeadingSlashes(_)
StripLeadingSlashes(str) ==
    IF Len(str) > 0 /\ CharAt(str, 1) = "/" THEN StripLeadingSlashes(From(str, 2)) ELSE str

\* The hash of a URL whose text after the scheme is rest with its first "#" at
\* hashAt: "" when there is no "#" or nothing follows it.
FragmentAt(rest, hashAt) ==
    IF hashAt = 0 \/ hashAt = Len(rest) THEN "" ELSE From(rest, hashAt)

\* The pathname of host-and-path text whose first "/" is at slash.
PathAt(hostAndPath, slash) == IF slash = 0 THEN "/" ELSE From(hostAndPath, slash)

\* new URL throws on an empty host and on a host with a forbidden character.
ParseHost(protocol, host, path, fragment) ==
    IF host = "" \/ \E i \in 1..Len(host) : CharAt(host, i) \notin HostChars
    THEN InvalidUrl
    ELSE [valid |-> TRUE, protocol |-> protocol, host |-> ToLowerCase(host),
          pathname |-> path, hash |-> fragment]

ParseHostAndPath(protocol, hostAndPath, fragment) ==
    ParseHost(protocol, Before(hostAndPath, {"/"}),
              PathAt(hostAndPath, FirstIndexOf(hostAndPath, {"/"})), fragment)

\* body is the text between the scheme and the hash.
ParseAfterScheme(protocol, body, fragment) ==
    IF protocol \in HostSchemes
    THEN ParseHostAndPath(protocol, StripLeadingSlashes(body), fragment)
    ELSE [valid |-> TRUE, protocol |-> protocol, host |-> "", pathname |-> body,
          hash |-> fragment]

ParseSchemeAndRest(protocol, rest) ==
    ParseAfterScheme(protocol, Before(rest, {"#"}), FragmentAt(rest, FirstIndexOf(rest, {"#"})))

ParseFromColon(str, colon) ==
    ParseSchemeAndRest(ToLowerCase(SubSeq(str, 1, colon)), From(str, colon + 1))

\* new URL(str): the components of an absolute URL, or InvalidUrl where the
\* constructor throws.
ParseUrl(str) ==
    IF ~HasSchemePrefix(str) THEN InvalidUrl ELSE ParseFromColon(str, FirstIndexOf(str, {":"}))

\* parsed.toString() of a parsed URL.
ParsedToString(parsed) ==
    IF parsed.protocol \in HostSchemes
    THEN parsed.protocol \o "//" \o parsed.host \o parsed.pathname \o parsed.hash
    ELSE parsed.protocol \o parsed.pathname \o parsed.hash

Threw(message) == [ok |-> FALSE, value |-> message]

Returned(value) == [ok |-> TRUE, value |-> value]

\* The protocol test, parsed.hash = "" and parsed.toString().
NormalizeParsed(parsed) ==
    IF ~parsed.valid THEN Threw("Invalid URL")
    ELSE IF parsed.protocol \notin SUPPORTED_PROTOCOLS THEN Threw("Unsupported URL protocol")
    ELSE Returned(ParsedToString([parsed EXCEPT !.hash = ""]))

\* A variant that prepends the default scheme whether or not one is present.
NormalizeTrimmedAlwaysPrefixed(trimmed) ==
    IF trimmed = "" THEN Threw("URL cannot be empty.")
    ELSE NormalizeParsed(ParseUrl("https://" \o trimmed))

\* The empty test, withProtocol and new URL(withProtocol).
NormalizeTrimmed(trimmed) ==
    IF trimmed = "" THEN Threw("URL cannot be empty.")
    ELSE NormalizeParsed(ParseUrl(IF HasSchemePrefix(trimmed) THEN trimmed
                                  ELSE "https://" \o trimmed))

\* normalizeCaptureUrl: the normalized URL string, or the error it throws.
normalizeCaptureUrl(value) == NormalizeTrimmed(Trim(value))

(***************************************************************************)
(* crawlTargets.                                                           *)
(***************************************************************************)
\* Largest --crawl-depth value explored.
MaxCrawlDepth == 2

\* Largest --max-pages value explored.
MaxPagesOption == 5

HomeA == Url("https:", "a.com", "/", "")

PageAp == Url("https:", "a.com", "/p", "")

HomeB == Url("https:", "b.com", "/", "")

\* The seed lists explored: what resolveSeedUrls returns is duplicate-free.
SeedLists == {<<HomeA>>, <<HomeA, HomeB>>, <<PageAp, HomeA>>}

Rel(pathname, hash) == Url("", "", pathname, hash)

\* The a[href] lists a page may serve, in page order.
PageHrefLists ==
    { <<>>,
      <<Rel("/p", ""), Rel("/q", "")>>,
      <<Rel("/p", "#top"), Rel("/p", ""), Url("https:", "b.com", "/", "")>>,
      <<Rel("", "#top"), Url("mailto:", "", "x@a.com", ""), Rel("/logo.PNG", ""), Rel("/q", "")>>,
      <<Rel("/", ""), Url("https:", "b.com", "/q", "#x"), Rel("/p", "")>>,
      <<Url("ftp:", "a.com", "/f", ""), Url("http:", "a.com", "/p", ""), Rel("/q", "#x")>> }

CrawlSettings ==
    [crawlDepth : 0..MaxCrawlDepth, maxPages : 1..MaxPagesOption, sameOriginOnly : BOOLEAN]

\* new Set(seedUrls.map((urlValue) => new URL(urlValue).origin))
AllowedOrigins(seeds) == {Origin(seeds[i]) : i \in 1..Len(seeds)}

\* Math.max(settings.maxPages, seedUrls.length)
CrawlMaxPages(settingsMaxPages, seeds) == Max(settingsMaxPages, Len(seeds))

\* seedUrls.map((urlValue) => ({ url: urlValue, depth: 0 }))
SeedQueue(seeds) == [i \in 1..Len(seeds) |-> [url |-> seeds[i], depth |-> 0]]

CrawlIdle ==
    /\ cpc = "idle"
    /\ seedUrls = <<>>
    /\ settings = [crawlDepth |-> 0, maxPages |-> 1, sameOriginOnly |-> TRUE]
    /\ allowedOrigins = {}
    /\ maxPages = 0
    /\ discovered = <<>>
    /\ discoveredSet = {}
    /\ queue = <<>>
    /\ navFailed = {}
    /\ pageLinks = {}
    /\ placed = {}
    /\ visits = <<>>

\* The state of crawlTargets when its loop is first reached.
CrawlStartState ==
    /\ cpc = "loop"
    /\ seedUrls \in SeedLists
    /\ settings \in CrawlSettings
    /\ allowedOrigins = AllowedOrigins(seedUrls)
    /\ maxPages = CrawlMaxPages(settings.maxPages, seedUrls)
    /\ discovered = uniqueOrdered(seedUrls)
    /\ discoveredSet = Range(uniqueOrdered(seedUrls))
    /\ queue = SeedQueue(seedUrls)
    /\ navFailed = {}
    /\ pageLinks = {}
    /\ placed = Range(SeedQueue(seedUrls))
    /\ visits = <<>>

\* while (queue.length > 0 && discoveredSet.size < maxPages)
CrawlLoopCondition == Len(queue) > 0 /\ Cardinality(discoveredSet) < maxPages

\* A loop that leaves the first item in the queue.
QueueNotShifted(q) == q

\* queue.shift(): the queue without its first item.
QueueAfterShift(q) == Tail(q)

\* A depth test that lets one more level be expanded.
DepthReachedOffByOne(depth, crawlDepth) == depth > crawlDepth

\* if (next.depth >= settings.crawlDepth) continue;
DepthReached(depth, crawlDepth) == depth >= crawlDepth

\* The for loop over links without the size test.
RECURSIVE AdmitLinksNoCap(_, _, _, _)
AdmitLinksNoCap(links, st, depth, cap) ==
    IF links = <<>> THEN st
    ELSE LET link == Head(links)
         IN  IF link \in st.discoveredSet
             THEN AdmitLinksNoCap(Tail(links), st, depth, cap)
             ELSE AdmitLinksNoCap(Tail(links),
                                  [discoveredSet |-> st.discoveredSet \cup {link},
                                   discovered    |-> Append(st.discovered, link),
                                   queue         |-> Append(st.queue, [url |-> link, depth |-> depth + 1])],
                                  depth, cap)

\* The for loop over links with queue.unshift in place of queue.push: the frontier
\* is a stack and the crawl goes depth first.
RECURSIVE AdmitLinksDepthFirst(_, _, _, _)
AdmitLinksDepthFirst(links, st, depth, cap) ==
    IF links = <<>> THEN st
    ELSE LET link == Head(links)
         IN  IF link \in st.discoveredSet
             THEN AdmitLinksDepthFirst(Tail(links), st, depth, cap)
             ELSE IF Cardinality(st.discoveredSet) >= cap
                  THEN st
                  ELSE AdmitLinksDepthFirst(Tail(links),
                                  [discoveredSet |-> st.discoveredSet \cup {link},
                                   discovered    |-> Append(st.discovered, link),
                                   queue         |-> <<[url |-> link, depth |-> depth + 1]>> \o st.queue],
                                  depth, cap)

\* The for loop over links without the discoveredSet.has(link) test.
RECURSIVE AdmitLinksNoSeenTest(_, _, _, _)
AdmitLinksNoSeenTest(links, st, depth, cap) ==
    IF links = <<>> THEN st
    ELSE IF Cardinality(st.discoveredSet) >= cap
         THEN st
         ELSE AdmitLinksNoSeenTest(Tail(links),
                                   [discoveredSet |-> st.discoveredSet \cup {Head(links)},
                                    discovered    |-> Append(st.discovered, Head(links)),
                                    queue         |-> Append(st.queue, [url |-> Head(links), depth |-> depth + 1])],
                                   depth, cap)

\* The for loop over links: skip known links, stop at the cap, else record and enqueue.
RECURSIVE AdmitLinks(_, _, _, _)
AdmitLinks(links, st, depth, cap) ==
    IF links = <<>> THEN st
    ELSE LET link == Head(links)
         IN  IF link \in st.discoveredSet
             THEN AdmitLinks(Tail(links), st, depth, cap)
             ELSE IF Cardinality(st.discoveredSet) >= cap
                  THEN st
                  ELSE AdmitLinks(Tail(links),
                                  [discoveredSet |-> st.discoveredSet \cup {link},
                                   discovered    |-> Append(st.discovered, link),
                                   queue         |-> Append(st.queue, [url |-> link, depth |-> depth + 1])],
                                  depth, cap)

\* The http(s) links among the hrefs of a page, resolved and normalized.
HttpLinks(hrefs, baseUrl) ==
    {normalizeDiscoveredUrl(ResolveHref(hrefs[i], baseUrl)) :
        i \in {j \in 1..Len(hrefs) :
                 /\ ~IsSkippedHref(hrefs[j])
                 /\ ResolveHref(hrefs[j], baseUrl).protocol \in SUPPORTED_PROTOCOLS}}

\* A crawl without the catch block: the error of page.goto ends crawlTargets.
RethrowNavigationError == "failed"

\* A page.goto that neither resolves nor rejects: crawlTargets stays at the await.
NavigationNeverSettles == "navigating"

\* Where crawlTargets goes when page.goto throws: the catch block continues the loop.
CatchNavigationError == "loop"

\* The record of one pass of the while loop: the item shifted off the queue, what
\* came of it (navigation failed, not expanded, expanded, link query threw) and
\* the links collectLinksFromPage returned for it.
Visit(next, outcome, links) ==
    [url |-> next.url, depth |-> next.depth, outcome |-> outcome, links |-> links]

\* The loop condition lets at most maxPages passes happen (each pass shifts one
\* item and no more than maxPages items are ever queued), so a record of
\* MaxVisits passes holds every pass of a crawl.
MaxVisits == MaxPagesOption + 1

Recorded(visit) == IF Len(visits) < MaxVisits THEN Append(visits, visit) ELSE visits

\* No pass of the loop is missing from the record.
VisitsRecordComplete == Len(visits) < MaxVisits

\* A crawl that forgets a URL it could not load: the catch block takes the URL
\* out of discovered and discoveredSet before it continues.
CrawlNavigationFailsAndForgets ==
    /\ cpc = "loop"
    /\ CrawlLoopCondition
    /\ queue' = QueueAfterShift(queue)
    /\ navFailed' = navFailed \cup {Head(queue).url}
    /\ discovered' = SelectSeq(discovered, LAMBDA url : url # Head(queue).url)
    /\ discoveredSet' = discoveredSet \ {Head(queue).url}
    /\ cpc' = CatchNavigationError
    /\ visits' = Recorded(Visit(Head(queue), "failed", <<>>))
    /\ UNCHANGED <<seedUrls, settings, allowedOrigins, maxPages, pageLinks, placed>>
    /\ UNCHANGED notCrawl

\* page.goto(next.url) throws: continue.
CrawlNavigationFails ==
    /\ cpc = "loop"
    /\ CrawlLoopCondition
    /\ queue' = QueueAfterShift(queue)
    /\ navFailed' = navFailed \cup {Head(queue).url}
    /\ cpc' = CatchNavigationError
    /\ visits' = Recorded(Visit(Head(queue), "failed", <<>>))
    /\ UNCHANGED <<seedUrls, settings, allowedOrigins, maxPages, discovered, discoveredSet,
                   pageLinks, placed>>
    /\ UNCHANGED notCrawl

\* page.goto succeeds and next.depth >= settings.crawlDepth: continue.
CrawlDepthReached ==
    /\ cpc = "loop"
    /\ CrawlLoopCondition
    /\ DepthReached(Head(queue).depth, settings.crawlDepth)
    /\ queue' = QueueAfterShift(queue)
    /\ UNCHANGED <<cpc, seedUrls, settings, allowedOrigins, maxPages, discovered, discoveredSet,
                   navFailed, pageLinks, placed>>
    /\ visits' = Recorded(Visit(Head(queue), "leaf", <<>>))
    /\ UNCHANGED notCrawl

\* page.goto succeeds, the links of the page are collected and admitted.
CrawlExpand ==
    /\ cpc = "loop"
    /\ CrawlLoopCondition
    /\ ~DepthReached(Head(queue).depth, settings.crawlDepth)
    /\ \E hrefs \in PageHrefLists :
          LET next  == Head(queue)
              links == collectLinksFromPage(hrefs, next.url, allowedOrigins, settings.sameOriginOnly)
              st    == AdmitLinks(links,
                                  [discoveredSet |-> discoveredSet,
                                   discovered    |-> discovered,
                                   queue         |-> QueueAfterShift(queue)],
                                  next.depth, maxPages)
          IN  /\ discoveredSet' = st.discoveredSet
              /\ discovered' = st.discovered
              /\ queue' = st.queue
              /\ pageLinks' = pageLinks \cup {<<next.url, l>> : l \in HttpLinks(hrefs, next.url)}
              /\ placed' = placed \cup Range(st.queue)
              /\ visits' = Recorded(Visit(next, "expanded", links))
    /\ UNCHANGED <<cpc, seedUrls, settings, allowedOrigins, maxPages, navFailed>>
    /\ UNCHANGED notCrawl

\* page.$$eval rejects inside collectLinksFromPage: the error leaves crawlTargets
\* through the finally block.
CrawlLinkQueryThrows ==
    /\ cpc = "loop"
    /\ CrawlLoopCondition
    /\ ~DepthReached(Head(queue).depth, settings.crawlDepth)
    /\ cpc' = "failed"
    /\ queue' = QueueAfterShift(queue)
    /\ UNCHANGED <<seedUrls, settings, allowedOrigins, maxPages, discovered, discoveredSet,
                   navFailed, pageLinks, placed>>
    /\ visits' = Recorded(Visit(Head(queue), "threw", <<>>))
    /\ UNCHANGED notCrawl

\* The loop condition is false: context.close() and return discovered.
CrawlReturn ==
    /\ cpc = "loop"
    /\ ~CrawlLoopCondition
    /\ cpc' = "done"
    /\ UNCHANGED <<seedUrls, settings, allowedOrigins, maxPages, discovered, discoveredSet,
                   queue, navFailed, pageLinks, placed, visits>>
    /\ UNCHANGED notCrawl

CrawlNext ==
    \/ CrawlNavigationFails
    \/ CrawlDepthReached
    \/ CrawlExpand
    \/ CrawlLinkQueryThrows
    \/ CrawlReturn

(***************************************************************************)
(* resolvePageKey, resolveOutputKey and the map of resolveCaptureTargets.  *)
(***************************************************************************)
\* Largest number of capture targets of one run.
MaxTargets == 5

\* pathname.split("/").filter(Boolean).at(-1): the last non-empty path segment,
\* "" when the path has none.
LastPathSegment(pathname) ==
    LET chars == {i \in 1..Len(pathname) : CharAt(pathname, i) # "/"}
    IN  IF chars = {} THEN ""
        ELSE LET last == CHOOSE i \in chars : \A j \in chars : j <= i
                 slashes == {i \in 1..last : CharAt(pathname, i) = "/"}
                 first == IF slashes = {} THEN 1
                          ELSE 1 + CHOOSE i \in slashes : \A j \in slashes : j <= i
             IN  SubSeq(pathname, first, last)

resolvePageKey(url) ==
    LET segment == LastPathSegment(url.pathname)
        fromPath == IF segment = "" THEN "home" ELSE segment
        normalized == FilenameSafe(fromPath)
    IN  IF normalized = "" THEN "page" ELSE normalized

\* hostname.toLowerCase().replace(...).replace(...)
HostKey(url) == FilenameSafe(url.host)

\* const candidates = [pageKey, `${hostKey}-${pageKey}`, `${hostKey}-${pageKey}-${Date.now()}`]
OutputKeyCandidates(url, now) ==
    << resolvePageKey(url),
       HostKey(url) \o "-" \o resolvePageKey(url),
       HostKey(url) \o "-" \o resolvePageKey(url) \o "-" \o ToString(now) >>

\* const fallback = `${hostKey}-${pageKey}-${seen.size + 1}`
FallbackOutputKey(url, seen) ==
    HostKey(url) \o "-" \o resolvePageKey(url) \o "-" \o ToString(Cardinality(seen) + 1)

\* The key resolveOutputKey returns (and adds to seen): the first candidate that
\* is not in seen, else the fallback.
resolveOutputKey(url, seen, now) ==
    LET candidates == OutputKeyCandidates(url, now)
        free == {i \in 1..Len(candidates) : candidates[i] \notin seen}
    IN  IF free # {} THEN candidates[CHOOSE i \in free : \A j \in free : i <= j]
        ELSE FallbackOutputKey(url, seen)

\* The URLs a run may capture.
KeyUrlPool ==
    { Url("https:", "a.com", "/x", ""),
      Url("https:", "a.com", "/1/x", ""),
      Url("https:", "a.com", "/2/x/", ""),
      Url("https:", "a.com", "/3/X", ""),
      Url("https:", "b.com", "/a.com-x-5", ""),
      Url("https:", "b.com", "/A.com_x", "") }

\* The values Date.now() may return (milliseconds, shortened).
Timestamps == {1700, 1701}

KeysIdle ==
    /\ keyUrls = <<>>
    /\ seenOutputKeys = {}
    /\ outputKeys = <<>>
    /\ clock = 0

\* const seenOutputKeys = new Set()
KeysStartState ==
    /\ keyUrls = <<>>
    /\ seenOutputKeys = {}
    /\ outputKeys = <<>>
    /\ clock = 0

\* One element of urls.map(...): the next target URL gets its output key.
ResolveNextOutputKey ==
    /\ Len(keyUrls) < MaxTargets
    /\ \E url \in KeyUrlPool \ Range(keyUrls), now \in Timestamps :
          /\ now >= clock
          /\ clock' = now
          /\ keyUrls' = Append(keyUrls, url)
          /\ outputKeys' = Append(outputKeys, resolveOutputKey(url, seenOutputKeys, now))
          /\ seenOutputKeys' = seenOutputKeys \cup {resolveOutputKey(url, seenOutputKeys, now)}
    /\ UNCHANGED notKeys

KeysNext == ResolveNextOutputKey

(***************************************************************************)
(* extractUrlsFromText, readUrlsFromFile and resolveSeedUrls.  A text is   *)
(* the sequence of its lines (content.split(/\r?\n/)); no pattern of the   *)
(* extractor matches across a line break in the texts explored.            *)
(***************************************************************************)
DEFAULT_PAGE_URL == "https://membershealth.ca/Discovery"

SUPPORTED_URL_FILE_EXTENSIONS == {".txt", ".md", ".doc", ".docx"}

\* The length of the "http://" or "https://" that starts at position i (the
\* patterns are case-insensitive), 0 when neither does.
HttpPrefixLength(line, i) ==
    IF i > Len(line) \/ CharAt(line, i) \notin {"h", "H"} THEN 0
    ELSE IF i + 6 <= Len(line) /\ ToLowerCase(SubSeq(line, i, i + 6)) = "http://" THEN 7
    ELSE IF i + 7 <= Len(line) /\ ToLowerCase(SubSeq(line, i, i + 7)) = "https://" THEN 8
    ELSE 0

\* The last position of the run of characters outside stops that starts at from
\* (from - 1 when the run is empty).
RunEnd(line, from, stops) ==
    LET hits == {i \in from..Len(line) : CharAt(line, i) \in stops}
    IN  IF hits = {} THEN Len(line) ELSE (CHOOSE i \in hits : \A j \in hits : i <= j) - 1

\* The characters that end an http(s) token: whitespace < > " ' ) (and the
\* backquote, which no text explored holds).
HttpTokenStops == WhitespaceChars \cup {"<", ">", "\"", "'", ")"}

\* content.matchAll(httpPattern) on one line, from position i; HttpTokenTo is the
\* match that starts at i and ends at end, and the matches after it.
RECURSIVE HttpTokensFrom(_, _)
HttpTokenTo(line, i, end) == <<SubSeq(line, i, end)>> \o HttpTokensFrom(line, end + 1)

HttpTokensFrom(line, i) ==
    IF i > Len(line) THEN <<>>
    ELSE IF HttpPrefixLength(line, i) = 0 THEN HttpTokensFrom(line, i + 1)
    ELSE HttpTokenTo(line, i, RunEnd(line, i + HttpPrefixLength(line, i), HttpTokenStops))

\* content.matchAll(/\[[^\]]*]\((https?:\/\/[^)\s]+)\)/gi) on one line, from
\* position i: the capture group of each match. A match opens with "[" at i,
\* has its "]" at close, its target from start to end and a ")" after it.
RECURSIVE MarkdownTargetsFrom(_, _)
MarkdownTargetTo(line, i, start, end) ==
    IF /\ end >= start + HttpPrefixLength(line, start)
       /\ end + 1 <= Len(line)
       /\ CharAt(line, end + 1) = ")"
    THEN <<SubSeq(line, start, end)>> \o MarkdownTargetsFrom(line, end + 2)
    ELSE MarkdownTargetsFrom(line, i + 1)

MarkdownTargetAt(line, i, close) ==
    IF /\ close + 1 <= Len(line)
       /\ CharAt(line, close + 1) = "("
       /\ HttpPrefixLength(line, close + 2) > 0
    THEN MarkdownTargetTo(line, i, close + 2,
                          RunEnd(line, close + 2 + HttpPrefixLength(line, close + 2),
                                 WhitespaceChars \cup {")"}))
    ELSE MarkdownTargetsFrom(line, i + 1)

MarkdownTargetsFrom(line, i) ==
    IF i > Len(line) THEN <<>>
    ELSE IF CharAt(line, i) # "[" THEN MarkdownTargetsFrom(line, i + 1)
    ELSE MarkdownTargetAt(line, i, RunEnd(line, i + 1, {"]"}) + 1)

\* value.replace(/[),.;]+$/u, "").trim()
trimUrlPunctuation(value) ==
    LET kept == {i \in 1..Len(value) : CharAt(value, i) \notin {")", ",", ".", ";"}}
    IN  IF kept = {} THEN ""
        ELSE Trim(SubSeq(value, 1, CHOOSE i \in kept : \A j \in kept : j <= i))

\* /^[a-zA-Z0-9.-]+\.[a-zA-Z]{2,}$/u.test(head), the last "." of head at dot.
DomainShape(head, dot) ==
    /\ \A i \in 1..Len(head) : CharAt(head, i) \in AlnumChars \cup LetterChars \cup {".", "-"}
    /\ dot >= 2
    /\ Len(head) - dot >= 2
    /\ \A i \in (dot + 1)..Len(head) : CharAt(head, i) \in LetterChars

DomainHead(head) == DomainShape(head, LastDot(head))

\* /^[a-zA-Z0-9.-]+\.[a-zA-Z]{2,}([/:?#].*)?$/u.test(candidate)
LooksLikeDomain(candidate) == DomainHead(Before(candidate, {"/", ":", "?", "#"}))

TrimEach(tokens) == [i \in 1..Len(tokens) |-> trimUrlPunctuation(tokens[i])]

\* The candidates of one pass over all lines, in text order.
RECURSIVE HttpCandidates(_)
HttpCandidates(lines) ==
    IF lines = <<>> THEN <<>>
    ELSE TrimEach(HttpTokensFrom(Head(lines), 1)) \o HttpCandidates(Tail(lines))

RECURSIVE MarkdownCandidates(_)
MarkdownCandidates(lines) ==
    IF lines = <<>> THEN <<>>
    ELSE TrimEach(MarkdownTargetsFrom(Head(lines), 1)) \o MarkdownCandidates(Tail(lines))

\* The trimmed line when it is not empty, has no " " and no "@" and looks like a
\* domain.
DomainCandidate(candidate) ==
    IF /\ candidate # ""
       /\ " " \notin CharsOf(candidate)
       /\ "@" \notin CharsOf(candidate)
       /\ LooksLikeDomain(candidate)
    THEN <<candidate>> ELSE <<>>

RECURSIVE DomainCandidates(_)
DomainCandidates(lines) ==
    IF lines = <<>> THEN <<>>
    ELSE DomainCandidate(Trim(Head(lines))) \o DomainCandidates(Tail(lines))

\* try { normalized.push(...) } catch {}: a candidate that throws is ignored.
PushReturned(result) == IF result.ok THEN <<result.value>> ELSE <<>>

\* The normalized form of every candidate that normalizes, in order.
RECURSIVE NormalizedOrDropped(_)
NormalizedOrDropped(candidates) ==
    IF candidates = <<>> THEN <<>>
    ELSE PushReturned(normalizeCaptureUrl(Head(candidates)))
            \o NormalizedOrDropped(Tail(candidates))

\* rawCandidates is a Set: it keeps the first insertion of each candidate, the
\* empty candidate is never added.
RawCandidates(lines) ==
    uniqueOrdered(SelectSeq(HttpCandidates(lines) \o MarkdownCandidates(lines),
                            LAMBDA c : c # "")
                  \o DomainCandidates(lines))

extractUrlsFromText(lines) == uniqueOrdered(NormalizedOrDropped(RawCandidates(lines)))

\* A readUrlsFromFile that returns the empty list of a file without URLs.
UrlsEvenIfNone(urls) == Returned(urls)

\* if (urls.length === 0) throw
UrlsOrThrow(urls) == IF urls = <<>> THEN Threw("No valid URLs found") ELSE Returned(urls)

\* readUrlsFromFile: a file is its extension, whether its text can be read
\* (fs.readFile, textutil, unzip, catdoc) and the lines of its text.
readUrlsFromFile(file) ==
    IF file.extension \notin SUPPORTED_URL_FILE_EXTENSIONS
    THEN Threw("Unsupported --url-file extension")
    ELSE IF ~file.readable THEN Threw("Unable to read file")
    ELSE UrlsOrThrow(extractUrlsFromText(file.lines))

\* The positional arguments explored.
PositionalPool ==
    { "https://example.com",
      " membershealth.ca/Discovery#intro ",
      "HTTPS://Example.com/blog",
      "ftp://example.com/file",
      "" }

TextFile(extension, lines) == [extension |-> extension, readable |-> TRUE, lines |-> lines]

\* The URL files explored.
UrlFilePool ==
    { TextFile(".txt", <<"https://example.com/blog", "membershealth.ca/Discovery">>),
      TextFile(".md", <<"# Targets", "- https://example.com/contact.",
                        "- [Docs](https://docs.example.com/start)">>),
      TextFile(".txt", <<"example.com", "see https://example.com/about, https://example.com">>),
      TextFile(".txt", <<"invalid-url", "someone@example.com">>),
      TextFile(".pdf", <<"https://example.com">>),
      [extension |-> ".docx", readable |-> FALSE, lines |-> <<>>] }

\* readUrlsFromFile on each of the files explored.
UrlFileResult == [file \in UrlFilePool |-> readUrlsFromFile(file)]

\* The URLs the files explored yield.
UrlFileUrls ==
    UNION {Range(UrlFileResult[file].value) : file \in {f \in UrlFilePool : UrlFileResult[f].ok}}

\* The strings resolveSeedUrls hands to normalizeCaptureUrl: the positional
\* arguments, the default URL and the URLs extracted from the files.
SeedInputs == PositionalPool \cup {DEFAULT_PAGE_URL} \cup UrlFileUrls

\* normalizeCaptureUrl on each of those strings.
NormalizedSeedInput == [candidate \in SeedInputs |-> normalizeCaptureUrl(candidate)]

\* Those strings and what normalizeCaptureUrl makes of them.
SeedStrings ==
    SeedInputs \cup {NormalizedSeedInput[candidate].value :
                         candidate \in {c \in SeedInputs : NormalizedSeedInput[c].ok}}

\* normalizeCaptureUrl on each of the strings a seed list is made of.
NormalizedSeed == [candidate \in SeedStrings |-> normalizeCaptureUrl(candidate)]

\* The results of readUrlsFromFile for the files, in argument order.
FileResults(urlFiles) == [i \in 1..Len(urlFiles) |-> UrlFileResult[urlFiles[i]]]

RECURSIVE Flatten(_)
Flatten(lists) == IF lists = <<>> THEN <<>> ELSE Head(lists) \o Flatten(Tail(lists))

\* The smallest member of a set of positions, 0 when it is empty.
FirstOf(positions) ==
    IF positions = {} THEN 0 ELSE CHOOSE i \in positions : \A j \in positions : i <= j

\* The values of the results when none threw, else the first error thrown.
ValuesOrThrownAt(results, failed) ==
    IF failed = 0 THEN Returned([i \in 1..Len(results) |-> results[i].value])
    ELSE results[failed]

ValuesOrFirstThrown(results) ==
    ValuesOrThrownAt(results, FirstOf({i \in 1..Len(results) : ~results[i].ok}))

\* The candidates with the URLs of the files ahead of the positional URLs.
SeedCandidatesFilesFirst(opts) ==
    Flatten([i \in 1..Len(opts.urlFiles) |-> UrlFileResult[opts.urlFiles[i]].value])
        \o (IF Len(opts.positionalUrls) = 0 /\ Len(opts.urlFiles) = 0
            THEN <<DEFAULT_PAGE_URL>> ELSE opts.positionalUrls)

\* const collected: the default URL or the positional URLs, then the URLs of each
\* file (every file was read without an error).
SeedCandidates(opts) ==
    (IF Len(opts.positionalUrls) = 0 /\ Len(opts.urlFiles) = 0
     THEN <<DEFAULT_PAGE_URL>> ELSE opts.positionalUrls)
        \o Flatten([i \in 1..Len(opts.urlFiles) |-> UrlFileResult[opts.urlFiles[i]].value])

\* collected.map((candidate) => normalizeCaptureUrl(candidate))
NormalizeEach(collected) == [i \in 1..Len(collected) |-> NormalizedSeed[collected[i]]]

\* return uniqueOrdered(normalized), unless normalizeCaptureUrl threw.
UniqueOrThrown(normalized) ==
    IF normalized.ok THEN Returned(uniqueOrdered(normalized.value)) ELSE normalized

\* resolveSeedUrls: the seed list, or the first error thrown (a file's, before
\* any URL is normalized).
ResolveCollected(opts, files) ==
    IF ~files.ok THEN files
    ELSE UniqueOrThrown(ValuesOrFirstThrown(NormalizeEach(SeedCandidates(opts))))

resolveSeedUrls(opts) == ResolveCollected(opts, ValuesOrFirstThrown(FileResults(opts.urlFiles)))

\* Largest number of positional URL arguments.
MaxPositionalUrls == 2

\* Largest number of --url-file arguments.
MaxUrlFiles == 2

SeqsUpTo(pool, n) == UNION {[1..k -> pool] : k \in 0..n}

SeedsIdle ==
    /\ options = [positionalUrls |-> <<>>, urlFiles |-> <<>>]
    /\ seedResult = [status |-> "idle"]

\* The options parseCliArguments hands over, before resolveSeedUrls runs.
SeedsStartState ==
    /\ options \in [positionalUrls : SeqsUpTo(PositionalPool, MaxPositionalUrls),
                    urlFiles : SeqsUpTo(UrlFilePool, MaxUrlFiles)]
    /\ seedResult = [status |-> "pending"]

\* await resolveSeedUrls(options)
ResolveSeeds ==
    /\ seedResult.status = "pending"
    /\ LET result == resolveSeedUrls(options)
       IN  seedResult' = [status |-> IF result.ok THEN "returned" ELSE "threw",
                          value  |-> result.value]
    /\ UNCHANGED options
    /\ UNCHANGED notSeeds

SeedsNext == ResolveSeeds

(***************************************************************************)
(* extractUrlsFromText on its own: the text of a URL file, line by line.   *)
(***************************************************************************)

MaxLines == 3

\* The lines a text is made of: an absolute URL, a Markdown link, bare domains
\* (one is the scheme-less spelling of the Markdown link's target), a URL inside
\* a sentence and a line that holds no URL.
LinePool ==
    { "https://example.com/about",
      "- [Home](https://example.com/)",
      "membershealth.ca/Discovery",
      "example.com",
      "see https://example.org/a, and more.",
      "someone@example.com" }

ExtractIdle ==
    /\ content = <<>>
    /\ extracted = [status |-> "idle"]

\* The content argument, before extractUrlsFromText runs.
ExtractStartState ==
    /\ content \in SeqsUpTo(LinePool, MaxLines)
    /\ extracted = [status |-> "pending"]

\* extractUrlsFromText(content)
ExtractUrls ==
    /\ extracted.status = "pending"
    /\ extracted' = [status |-> "returned", value |-> extractUrlsFromText(content)]
    /\ UNCHANGED content
    /\ UNCHANGED notExtract

ExtractNext == ExtractUrls

(***************************************************************************)
(* normalizeCaptureUrl on its own, applied to a string and then to the     *)
(* string it returned.                                                     *)
(***************************************************************************)

\* The inputs explored are prefix \o host \o path \o suffix.
UrlPrefixes == {"", "https://", "HTTP://", "http:", "ftp://", "  https://"}

UrlHosts == {"membershealth.ca", "Example.COM", "example.com", "exa mple.com", ""}

UrlPaths == {"", "/", "/programs", "/a/b"}

UrlSuffixes == {"", "#intro", "#", "  "}

RawUrlPool ==
    {prefix \o host \o path \o suffix :
        prefix \in UrlPrefixes, host \in UrlHosts, path \in UrlPaths, suffix \in UrlSuffixes}

\* What a call of normalizeCaptureUrl did.
CallOutcome(result) ==
    [status |-> IF result.ok THEN "returned" ELSE "threw", value |-> result.value]

NormalizeIdle ==
    /\ rawUrl = ""
    /\ normalizedOnce = [status |-> "idle"]
    /\ normalizedTwice = [status |-> "idle"]

NormalizeStartState ==
    /\ rawUrl \in RawUrlPool
    /\ normalizedOnce = [status |-> "pending"]
    /\ normalizedTwice = [status |-> "pending"]

\* normalizeCaptureUrl(value)
NormalizeOnce ==
    /\ normalizedOnce.status = "pending"
    /\ normalizedOnce' = CallOutcome(normalizeCaptureUrl(rawUrl))
    /\ UNCHANGED <<rawUrl, normalizedTwice>>
    /\ UNCHANGED notNormalize

\* normalizeCaptureUrl(normalizeCaptureUrl(value)), when the inner call returned
NormalizeAgain ==
    /\ normalizedOnce.status = "returned"
    /\ normalizedTwice.status = "pending"
    /\ normalizedTwice' = CallOutcome(normalizeCaptureUrl(normalizedOnce.value))
    /\ UNCHANGED <<rawUrl, normalizedOnce>>
    /\ UNCHANGED notNormalize

NormalizeNext == NormalizeOnce \/ NormalizeAgain

(***************************************************************************)
(* parseCliArguments and the part of run before the browser is used.       *)
(***************************************************************************)

DEFAULT_TIMEOUT_MS == 60000

DEFAULT_SCALE == 2

DEFAULT_CRAWL_DEPTH == 1

DEFAULT_MAX_PAGES == 50

MinTimeoutMs == 5000

\* path.join(repoRoot, "screenshot-output"), with the repository at /repo.
DEFAULT_OUTPUT_DIR == "/repo/screenshot-output"

\* process.cwd()
Cwd == "/cwd"

\* path.resolve(process.cwd(), value) for a value without "." or ".." segments.
PathResolve(value) == IF StartsWith(value, "/") THEN value ELSE Cwd \o "/" \o value

DigitChars == CharsOf(Digits)

\* The number of leading characters of str that are in chars.
LeadingRun(str, chars) ==
    LET others == {i \in 1..Len(str) : CharAt(str, i) \notin chars}
    IN  IF others = {} THEN Len(str) ELSE (CHOOSE i \in others : \A j \in others : i <= j) - 1

\* The number the first last decimal digits of str denote.
RECURSIVE DecimalValue(_, _)
DecimalValue(str, last) ==
    IF last = 0 THEN 0
    ELSE 10 * DecimalValue(str, last - 1) + (FirstIndexOf(Digits, {CharAt(str, last)}) - 1)

NaN == [finite |-> FALSE, negative |-> FALSE, value |-> 0, fraction |-> ""]

\* A number: its sign, its integer part and the digits after the decimal point.
Number(negative, value, fraction) ==
    [finite |-> TRUE, negative |-> negative, value |-> value, fraction |-> fraction]

\* The digits of str without its trailing zeros.
RECURSIVE TrimTrailingZeros(_)
TrimTrailingZeros(str) ==
    IF Len(str) > 0 /\ CharAt(str, Len(str)) = "0"
    THEN TrimTrailingZeros(SubSeq(str, 1, Len(str) - 1)) ELSE str

\* The fraction digits that follow the integer digits: the digits after a ".".
FractionAfter(rest) ==
    IF Len(rest) > 0 /\ CharAt(rest, 1) = "."
    THEN TrimTrailingZeros(SubSeq(rest, 2, 1 + LeadingRun(From(rest, 2), DigitChars)))
    ELSE ""

\* The integer digits of an unsigned literal are its first digits characters.
UnsignedInt(str, negative, digits) ==
    IF digits = 0 THEN NaN ELSE Number(negative, DecimalValue(str, digits), "")

UnsignedFloat(str, negative, digits, fraction) ==
    IF digits = 0 /\ fraction = "" THEN NaN
    ELSE Number(negative, DecimalValue(str, digits), fraction)

SignedInt(str) ==
    IF Len(str) > 0 /\ CharAt(str, 1) \in {"-", "+"}
    THEN UnsignedInt(From(str, 2), CharAt(str, 1) = "-", LeadingRun(From(str, 2), DigitChars))
    ELSE UnsignedInt(str, FALSE, LeadingRun(str, DigitChars))

UnsignedFloatOf(str, negative, digits) ==
    UnsignedFloat(str, negative, digits, FractionAfter(From(str, digits + 1)))

SignedFloat(str) ==
    IF Len(str) > 0 /\ CharAt(str, 1) \in {"-", "+"}
    THEN UnsignedFloatOf(From(str, 2), CharAt(str, 1) = "-", LeadingRun(From(str, 2), DigitChars))
    ELSE UnsignedFloatOf(str, FALSE, LeadingRun(str, DigitChars))

\* Number.parseInt(value, 10): leading whitespace, a sign, decimal digits; the
\* rest of the text is ignored.
ParseInt(value) == SignedInt(Trim(value))

\* Number.parseFloat(value) for a decimal literal without an exponent.
ParseFloat(value) == SignedFloat(Trim(value))

\* parsed < bound, for a finite parsed without a fraction
LessThan(parsed, bound) ==
    IF parsed.negative THEN parsed.value > 0 \/ 0 < bound ELSE parsed.value < bound

\* parsed <= 0
NotPositive(parsed) == parsed.negative \/ (parsed.value = 0 /\ parsed.fraction = "")

\* value.split(",")
RECURSIVE SplitAtCommas(_)
SplitAtCommas(value) ==
    IF FirstIndexOf(value, {","}) = 0 THEN <<value>>
    ELSE <<Before(value, {","})>> \o SplitAtCommas(From(value, FirstIndexOf(value, {","}) + 1))

TrimItems(items) == [i \in 1..Len(items) |-> Trim(items[i])]

\* splitCommaList: split at the commas, trim, drop the empty items.
splitCommaList(value) == SelectSeq(TrimItems(SplitAtCommas(value)), LAMBDA item : item # "")

\* const options = { ... }
DefaultOptions ==
    [positionalUrls |-> <<>>, urlFiles |-> <<>>, outputDir |-> DEFAULT_OUTPUT_DIR,
     crawl |-> FALSE, crawlDepth |-> DEFAULT_CRAWL_DEPTH, sameOriginOnly |-> TRUE,
     maxPages |-> DEFAULT_MAX_PAGES, timeoutMs |-> DEFAULT_TIMEOUT_MS,
     scale |-> Number(FALSE, DEFAULT_SCALE, ""), excludeClasses |-> <<>>,
     excludeIds |-> <<>>, help |-> FALSE]

\* The state of the parsing loop: the options, the position of the argument to
\* read next (index + 1) and the message of the error thrown, "" when none was.
ParseContinues(opts, nextIndex) == [options |-> opts, index |-> nextIndex, thrown |-> ""]

ParseThrows(opts, message) == [options |-> opts, index |-> 0, thrown |-> message]

\* arg.slice(arg.indexOf("=") + 1) when arg includes "=": "" stands for both the
\* empty text and undefined, which readValue treats alike.
InlineValue(arg) ==
    IF FirstIndexOf(arg, {"="}) = 0 THEN "" ELSE From(arg, FirstIndexOf(arg, {"="}) + 1)

\* argv[index + 1]: "" stands for undefined, which !next treats like "".
NextArgument(args, position) == IF position < Len(args) THEN args[position + 1] ELSE ""

ReadValue(value, nextIndex) == [thrown |-> "", value |-> value, nextIndex |-> nextIndex]

MissingValue(flagName) ==
    [thrown |-> "Missing value for " \o flagName, value |-> "", nextIndex |-> 0]

ReadNextArgument(next, position, flagName) ==
    IF next = "" \/ StartsWith(next, "--") THEN MissingValue(flagName)
    ELSE ReadValue(next, position + 2)

ReadInlineOrNext(inline, args, position, flagName) ==
    IF inline # "" THEN ReadValue(inline, position + 1)
    ELSE ReadNextArgument(NextArgument(args, position), position, flagName)

\* readValue(arg, index, flagName), where arg is args[position]
readValue(args, position, flagName) ==
    ReadInlineOrNext(InlineValue(args[position]), args, position, flagName)

\* The --same-origin-only=<rawValue> branch.
ParseSameOriginAssignment(opts, position, rawValue) ==
    IF rawValue = "true"
    THEN ParseContinues([opts EXCEPT !.sameOriginOnly = TRUE], position + 1)
    ELSE IF rawValue = "false"
    THEN ParseContinues([opts EXCEPT !.sameOriginOnly = FALSE], position + 1)
    ELSE ParseThrows(opts, "Invalid --same-origin-only value: " \o rawValue
                           \o ". Use true, false, or --no-same-origin-only.")

ParseUrlFile(opts, read) ==
    IF read.thrown # "" THEN ParseThrows(opts, read.thrown)
    ELSE ParseContinues([opts EXCEPT !.urlFiles = Append(@, read.value)], read.nextIndex)

ParseOutputDir(opts, read) ==
    IF read.thrown # "" THEN ParseThrows(opts, read.thrown)
    ELSE ParseContinues([opts EXCEPT !.outputDir = PathResolve(read.value)], read.nextIndex)

CrawlDepthParsed(opts, read, number) ==
    IF ~number.finite \/ LessThan(number, 0)
    THEN ParseThrows(opts, "Invalid --crawl-depth value: " \o read.value)
    ELSE ParseContinues([opts EXCEPT !.crawlDepth = number.value], read.nextIndex)

ParseCrawlDepth(opts, read) ==
    IF read.thrown # "" THEN ParseThrows(opts, read.thrown)
    ELSE CrawlDepthParsed(opts, read, ParseInt(read.value))

MaxPagesParsed(opts, read, number) ==
    IF ~number.finite \/ LessThan(number, 1)
    THEN ParseThrows(opts, "Invalid --max-pages value: " \o read.value)
    ELSE ParseContinues([opts EXCEPT !.maxPages = number.value], read.nextIndex)

ParseMaxPages(opts, read) ==
    IF read.thrown # "" THEN ParseThrows(opts, read.thrown)
    ELSE MaxPagesParsed(opts, read, ParseInt(read.value))

TimeoutParsed(opts, read, number) ==
    IF ~number.finite \/ LessThan(number, MinTimeoutMs)
    THEN ParseThrows(opts, "Invalid --timeout-ms value: " \o read.value \o ". Expected >= 5000.")
    ELSE ParseContinues([opts EXCEPT !.timeoutMs = number.value], read.nextIndex)

ParseTimeout(opts, read) ==
    IF read.thrown # "" THEN ParseThrows(opts, read.thrown)
    ELSE TimeoutParsed(opts, read, ParseInt(read.value))

ScaleParsed(opts, read, number) ==
    IF ~number.finite \/ NotPositive(number)
    THEN ParseThrows(opts, "Invalid --scale value: " \o read.value)
    ELSE ParseContinues([opts EXCEPT !.scale = number], read.nextIndex)

ParseScale(opts, read) ==
    IF read.thrown # "" THEN ParseThrows(opts, read.thrown)
    ELSE ScaleParsed(opts, read, ParseFloat(read.value))

ParseExcludeClass(opts, read) ==
    IF read.thrown # "" THEN ParseThrows(opts, read.thrown)
    ELSE ParseContinues([opts EXCEPT !.excludeClasses = @ \o splitCommaList(read.value)],
                        read.nextIndex)

ParseExcludeId(opts, read) ==
    IF read.thrown # "" THEN ParseThrows(opts, read.thrown)
    ELSE ParseContinues([opts EXCEPT !.excludeIds = @ \o splitCommaList(read.value)],
                        read.nextIndex)

OnlyFullPageMode == "Only full-page mode is supported. Remove --mode=segments."

SegmentedModeRemoved == "Segmented mode is no longer supported. Use default full-page capture."

\* A --mode branch that accepts every value.
ParseModeAnyValue(opts, read) ==
    IF read.thrown # "" THEN ParseThrows(opts, read.thrown)
    ELSE ParseContinues(opts, read.nextIndex)

\* The --mode branch: only the value "full" is accepted, and it changes nothing.
ParseMode(opts, read) ==
    IF read.thrown # "" THEN ParseThrows(opts, read.thrown)
    ELSE IF read.value # "full" THEN ParseThrows(opts, OnlyFullPageMode)
    ELSE ParseContinues(opts, read.nextIndex)

\* The flags that take a value, tested with startsWith in this order.
ParseValueFlag(args, arg, opts, position) ==
    IF StartsWith(arg, "--url-file")
    THEN ParseUrlFile(opts, readValue(args, position, "--url-file"))
    ELSE IF StartsWith(arg, "--output-dir")
    THEN ParseOutputDir(opts, readValue(args, position, "--output-dir"))
    ELSE IF StartsWith(arg, "--output")
    THEN ParseOutputDir(opts, readValue(args, position, "--output"))
    ELSE IF StartsWith(arg, "--crawl-depth")
    THEN ParseCrawlDepth(opts, readValue(args, position, "--crawl-depth"))
    ELSE IF StartsWith(arg, "--max-pages")
    THEN ParseMaxPages(opts, readValue(args, position, "--max-pages"))
    ELSE IF StartsWith(arg, "--timeout-ms")
    THEN ParseTimeout(opts, readValue(args, position, "--timeout-ms"))
    ELSE IF StartsWith(arg, "--scale")
    THEN ParseScale(opts, readValue(args, position, "--scale"))
    ELSE IF StartsWith(arg, "--exclude-class")
    THEN ParseExcludeClass(opts, readValue(args, position, "--exclude-class"))
    ELSE IF StartsWith(arg, "--exclude-id")
    THEN ParseExcludeId(opts, readValue(args, position, "--exclude-id"))
    ELSE IF StartsWith(arg, "--mode")
    THEN ParseMode(opts, readValue(args, position, "--mode"))
    ELSE IF arg = "--segments"
    THEN ParseThrows(opts, SegmentedModeRemoved)
    ELSE ParseThrows(opts, "Unknown option: " \o arg)

\* One pass of the while loop of parseCliArguments over arg = args[position].
ParseArgument(args, arg, opts, position) ==
    IF arg = "--help" \/ arg = "-h"
    THEN ParseContinues([opts EXCEPT !.help = TRUE], position + 1)
    ELSE IF ~StartsWith(arg, "--")
    THEN ParseContinues([opts EXCEPT !.positionalUrls = Append(@, arg)], position + 1)
    ELSE IF arg = "--crawl"
    THEN ParseContinues([opts EXCEPT !.crawl = TRUE], position + 1)
    ELSE IF arg = "--no-crawl"
    THEN ParseContinues([opts EXCEPT !.crawl = FALSE], position + 1)
    ELSE IF arg = "--same-origin-only"
    THEN ParseContinues([opts EXCEPT !.sameOriginOnly = TRUE], position + 1)
    ELSE IF StartsWith(arg, "--same-origin-only=")
    THEN ParseSameOriginAssignment(opts, position,
                                   ToLowerCase(Trim(From(arg, Len("--same-origin-only=") + 1))))
    ELSE IF arg = "--no-same-origin-only"
    THEN ParseContinues([opts EXCEPT !.sameOriginOnly = FALSE], position + 1)
    ELSE ParseValueFlag(args, arg, opts, position)

\* while (index < argv.length) { ... }
RECURSIVE ParseLoop(_, _)
ParseLoop(args, state) ==
    IF state.thrown # "" \/ state.index > Len(args) THEN state
    ELSE ParseLoop(args, ParseArgument(args, args[state.index], state.options, state.index))

ParseOutcome(state) ==
    IF state.thrown # "" THEN Threw(state.thrown) ELSE Returned(state.options)

\* parseCliArguments(argv): the options, or the error it throws.
parseCliArguments(args) == ParseOutcome(ParseLoop(args, ParseContinues(DefaultOptions, 1)))

MaxArgs == 3

\* The command-line arguments explored.
ArgumentPool ==
    { "https://example.com", "2", "false", "full", "shots",
      "--crawl", "--crawl-depth", "--loop", "--loop-depth",
      "--same-origin-only", "--output",
      "--mode", "--mode=segments", "--segments",
      "--help", "-h", "--bogus", "--scalex=3" }

CliIdle ==
    /\ argv = <<>>
    /\ cliResult = [status |-> "idle"]
    /\ runError = ""
    /\ rpc = "idle"
    /\ usagePrinted = FALSE
    /\ browserLaunched = FALSE
    /\ errorPrinted = ""
    /\ exitCode = -1

\* The process has started: run is about to parse its arguments.
CliStartState ==
    /\ argv \in SeqsUpTo(ArgumentPool, MaxArgs)
    /\ cliResult = [status |-> "pending"]
    /\ runError = ""
    /\ rpc = "start"
    /\ usagePrinted = FALSE
    /\ browserLaunched = FALSE
    /\ errorPrinted = ""
    /\ exitCode = -1

\* const options = parseCliArguments(process.argv.slice(2)); a throw rejects run()
RunParse ==
    /\ rpc = "start"
    /\ cliResult' = CallOutcome(parseCliArguments(argv))
    /\ rpc' = IF cliResult'.status = "returned" THEN "parsed" ELSE "rejected"
    /\ runError' = IF cliResult'.status = "returned" THEN "" ELSE cliResult'.value
    /\ UNCHANGED <<argv, usagePrinted, browserLaunched, errorPrinted, exitCode>>
    /\ UNCHANGED notCli

\* A run that never takes the help branch.
HelpNeverRequested(opts) == FALSE

\* if (options.help)
HelpRequested(opts) == opts.help

\* printHelp(); return; the process ends with the default exit code
RunPrintHelp ==
    /\ rpc = "parsed"
    /\ HelpRequested(cliResult.value)
    /\ usagePrinted' = TRUE
    /\ rpc' = "exited"
    /\ exitCode' = 0
    /\ UNCHANGED <<argv, cliResult, runError, browserLaunched, errorPrinted>>
    /\ UNCHANGED notCli

\* fs.mkdir, loadPlaywright and chromium.launch succeed: the browser is up and
\* run enters its try block.
RunLaunch ==
    /\ rpc = "parsed"
    /\ ~HelpRequested(cliResult.value)
    /\ browserLaunched' = TRUE
    /\ rpc' = "launched"
    /\ UNCHANGED <<argv, cliResult, runError, usagePrinted, errorPrinted, exitCode>>
    /\ UNCHANGED notCli

\* fs.mkdir or loadPlaywright rejects before the browser is launched.
RunSetupFails ==
    /\ rpc = "parsed"
    /\ ~HelpRequested(cliResult.value)
    /\ rpc' = "rejected"
    /\ runError' = "Setup failed"
    /\ UNCHANGED <<argv, cliResult, usagePrinted, browserLaunched, errorPrinted, exitCode>>
    /\ UNCHANGED notCli

\* run().catch: console.error(message); process.exit(1)
RunCatch ==
    /\ rpc = "rejected"
    /\ errorPrinted' = runError
    /\ exitCode' = 1
    /\ rpc' = "exited"
    /\ UNCHANGED <<argv, cliResult, runError, usagePrinted, browserLaunched>>
    /\ UNCHANGED notCli

CliNext == RunParse \/ RunPrintHelp \/ RunLaunch \/ RunSetupFails \/ RunCatch

(***************************************************************************)
(* run from the browser launch on: resolveCaptureTargets (with the         *)
(* browsing context of crawlTargets), captureUrl for every target and      *)
(* profile, printSummary and browser.close().  Every awaited call may      *)
(* reject.  A capture is named <<target, profile>> by its indexes.         *)
(***************************************************************************)

MaxCaptureTargets == 2

\* The profiles in the other order.
captureProfilesMobileFirst == <<"fullpage-mobile-document", "fullpage-document">>

\* const captureProfiles = [ ... ]
captureProfiles == <<"fullpage-document", "fullpage-mobile-document">>

\* The context crawlTargets creates.
CrawlContext == <<0, 0>>

CaptureIdle ==
    /\ kpc = "idle"
    /\ crawlRequested = FALSE
    /\ targetCount = 0
    /\ target = 0
    /\ profile = 0
    /\ browserOpen = FALSE
    /\ openContexts = {}
    /\ leftOpen = {}
    /\ written = {}
    /\ captureResults = <<>>
    /\ printedResults = {}
    /\ runFailed = FALSE
    /\ captureExit = -1

\* chromium.launch has returned and run enters its try block.
CaptureStartState ==
    /\ kpc = "resolve"
    /\ crawlRequested \in BOOLEAN
    /\ targetCount = 0
    /\ target = 0
    /\ profile = 0
    /\ browserOpen = TRUE
    /\ openContexts = {}
    /\ leftOpen = {}
    /\ written = {}
    /\ captureResults = <<>>
    /\ printedResults = {}
    /\ runFailed = FALSE
    /\ captureExit = -1

\* resolveSeedUrls rejects (a URL file that cannot be read, an invalid URL).
ResolveSeedsThrows ==
    /\ kpc = "resolve"
    /\ runFailed' = TRUE
    /\ kpc' = "finally"
    /\ UNCHANGED <<crawlRequested, targetCount, target, profile, browserOpen, openContexts,
                   leftOpen, written, captureResults, printedResults, captureExit>>
    /\ UNCHANGED notCapture

\* options.crawl is false: the seed URLs are the targets (there is at least one).
SeedsAreTargets ==
    /\ kpc = "resolve"
    /\ ~crawlRequested
    /\ \E count \in 1..MaxCaptureTargets : targetCount' = count
    /\ target' = 1
    /\ profile' = 1
    /\ kpc' = "newContext"
    /\ UNCHANGED <<crawlRequested, browserOpen, openContexts, leftOpen, written, captureResults,
                   printedResults, runFailed, captureExit>>
    /\ UNCHANGED notCapture

\* crawlTargets: const context = await browser.newContext()
CrawlNewContext ==
    /\ kpc = "resolve"
    /\ crawlRequested
    /\ openContexts' = openContexts \cup {CrawlContext}
    /\ kpc' = "crawlNewPage"
    /\ UNCHANGED <<crawlRequested, targetCount, target, profile, browserOpen, leftOpen,
                   written, captureResults, printedResults, runFailed, captureExit>>
    /\ UNCHANGED notCapture

\* crawlTargets: const page = await context.newPage()
CrawlNewPage ==
    /\ kpc = "crawlNewPage"
    /\ kpc' = "crawlLoop"
    /\ UNCHANGED <<crawlRequested, targetCount, target, profile, browserOpen, openContexts,
                   leftOpen, written, captureResults, printedResults, runFailed, captureExit>>
    /\ UNCHANGED notCapture

\* crawlTargets: context.newPage() rejects, before the try block is entered.
CrawlNewPageThrows ==
    /\ kpc = "crawlNewPage"
    /\ runFailed' = TRUE
    /\ kpc' = "finally"
    /\ UNCHANGED <<crawlRequested, targetCount, target, profile, browserOpen, openContexts,
                   leftOpen, written, captureResults, printedResults, captureExit>>
    /\ UNCHANGED notCapture

\* crawlTargets: the loop ends, context.close() in the finally block, the
\* discovered URLs become the targets.
CrawlReturnsTargets ==
    /\ kpc = "crawlLoop"
    /\ openContexts' = openContexts \ {CrawlContext}
    /\ \E count \in 1..MaxCaptureTargets : targetCount' = count
    /\ target' = 1
    /\ profile' = 1
    /\ kpc' = "newContext"
    /\ UNCHANGED <<crawlRequested, browserOpen, leftOpen, written, captureResults, printedResults,
                   runFailed, captureExit>>
    /\ UNCHANGED notCapture

\* crawlTargets: the link query rejects inside the loop, context.close() in the
\* finally block, the error goes on.
CrawlThrows ==
    /\ kpc = "crawlLoop"
    /\ openContexts' = openContexts \ {CrawlContext}
    /\ runFailed' = TRUE
    /\ kpc' = "finally"
    /\ UNCHANGED <<crawlRequested, targetCount, target, profile, browserOpen, leftOpen,
                   written, captureResults, printedResults, captureExit>>
    /\ UNCHANGED notCapture

\* captureUrl: const context = await browser.newContext(profile.contextOptions)
CaptureNewContext ==
    /\ kpc = "newContext"
    /\ openContexts' = openContexts \cup {<<target, profile>>}
    /\ kpc' = "newPage"
    /\ UNCHANGED <<crawlRequested, targetCount, target, profile, browserOpen, leftOpen,
                   written, captureResults, printedResults, runFailed, captureExit>>
    /\ UNCHANGED notCapture

\* captureUrl: browser.newContext rejects.
CaptureNewContextThrows ==
    /\ kpc = "newContext"
    /\ runFailed' = TRUE
    /\ kpc' = "finally"
    /\ UNCHANGED <<crawlRequested, targetCount, target, profile, browserOpen, openContexts,
                   leftOpen, written, captureResults, printedResults, captureExit>>
    /\ UNCHANGED notCapture

\* captureUrl: const page = await context.newPage()
CaptureNewPage ==
    /\ kpc = "newPage"
    /\ kpc' = "goto"
    /\ UNCHANGED <<crawlRequested, targetCount, target, profile, browserOpen, openContexts,
                   leftOpen, written, captureResults, printedResults, runFailed, captureExit>>
    /\ UNCHANGED notCapture

\* captureUrl: context.newPage() rejects, before the try block is entered.
CaptureNewPageThrows ==
    /\ kpc = "newPage"
    /\ runFailed' = TRUE
    /\ kpc' = "finally"
    /\ UNCHANGED <<crawlRequested, targetCount, target, profile, browserOpen, openContexts,
                   leftOpen, written, captureResults, printedResults, captureExit>>
    /\ UNCHANGED notCapture

\* captureUrl: page.goto, preparePageForCapture and page.screenshot succeed: the
\* file is written.
CaptureScreenshot ==
    /\ kpc = "goto"
    /\ written' = written \cup {<<target, profile>>}
    /\ kpc' = "stat"
    /\ UNCHANGED <<crawlRequested, targetCount, target, profile, browserOpen, openContexts,
                   leftOpen, captureResults, printedResults, runFailed, captureExit>>
    /\ UNCHANGED notCapture

\* A capture stage that isolates the failure of one capture: the error is caught
\* and the loop goes on with the next profile or target.
CaptureScreenshotFailureSkipped ==
    /\ kpc = "goto"
    /\ kpc' = "close"
    /\ UNCHANGED <<crawlRequested, targetCount, target, profile, browserOpen, openContexts,
                   leftOpen, written, captureResults, printedResults, runFailed, captureExit>>
    /\ UNCHANGED notCapture

\* captureUrl: page.goto, preparePageForCapture or page.screenshot rejects.
CaptureScreenshotThrows ==
    /\ kpc = "goto"
    /\ kpc' = "closeAfterThrow"
    /\ UNCHANGED <<crawlRequested, targetCount, target, profile, browserOpen, openContexts,
                   leftOpen, written, captureResults, printedResults, runFailed, captureExit>>
    /\ UNCHANGED notCapture

\* captureUrl: page.evaluate and fs.stat succeed, results.push({ ... })
CapturePushResult ==
    /\ kpc = "stat"
    /\ captureResults' = Append(captureResults, <<target, profile>>)
    /\ kpc' = "close"
    /\ UNCHANGED <<crawlRequested, targetCount, target, profile, browserOpen, openContexts,
                   leftOpen, written, printedResults, runFailed, captureExit>>
    /\ UNCHANGED notCapture

\* captureUrl: page.evaluate or fs.stat rejects after the file was written.
CaptureStatThrows ==
    /\ kpc = "stat"
    /\ kpc' = "closeAfterThrow"
    /\ UNCHANGED <<crawlRequested, targetCount, target, profile, browserOpen, openContexts,
                   leftOpen, written, captureResults, printedResults, runFailed, captureExit>>
    /\ UNCHANGED notCapture

\* captureUrl: finally { await context.close() } after a capture that succeeded;
\* then the next profile, the next target, or printSummary.
CaptureCloseContext ==
    /\ kpc = "close"
    /\ openContexts' = openContexts \ {<<target, profile>>}
    /\ IF profile < Len(captureProfiles)
       THEN /\ profile' = profile + 1
            /\ UNCHANGED target
            /\ kpc' = "newContext"
       ELSE IF target < targetCount
       THEN /\ profile' = 1
            /\ target' = target + 1
            /\ kpc' = "newContext"
       ELSE /\ UNCHANGED <<target, profile>>
            /\ kpc' = "summary"
    /\ UNCHANGED <<crawlRequested, targetCount, browserOpen, leftOpen, written, captureResults,
                   printedResults, runFailed, captureExit>>
    /\ UNCHANGED notCapture

\* captureUrl: finally { await context.close() } while an error propagates.
CaptureCloseContextAfterThrow ==
    /\ kpc = "closeAfterThrow"
    /\ openContexts' = openContexts \ {<<target, profile>>}
    /\ runFailed' = TRUE
    /\ kpc' = "finally"
    /\ UNCHANGED <<crawlRequested, targetCount, target, profile, browserOpen, leftOpen,
                   written, captureResults, printedResults, captureExit>>
    /\ UNCHANGED notCapture

\* run: printSummary(options, excludedSelectors, captureResults)
PrintSummary ==
    /\ kpc = "summary"
    /\ printedResults' = Range(captureResults)
    /\ kpc' = "finally"
    /\ UNCHANGED <<crawlRequested, targetCount, target, profile, browserOpen, openContexts,
                   leftOpen, written, captureResults, runFailed, captureExit>>
    /\ UNCHANGED notCapture

\* run: finally { await browser.close() }, which disposes of the contexts still
\* open; then the process ends, with code 1 through run().catch on an error.
CloseBrowser ==
    /\ kpc = "finally"
    /\ browserOpen' = FALSE
    /\ leftOpen' = openContexts
    /\ openContexts' = {}
    /\ captureExit' = IF runFailed THEN 1 ELSE 0
    /\ kpc' = "done"
    /\ UNCHANGED <<crawlRequested, targetCount, target, profile, written, captureResults,
                   printedResults, runFailed>>
    /\ UNCHANGED notCapture

CaptureNext ==
    \/ ResolveSeedsThrows
    \/ SeedsAreTargets
    \/ CrawlNewContext
    \/ CrawlNewPage
    \/ CrawlNewPageThrows
    \/ CrawlReturnsTargets
    \/ CrawlThrows
    \/ CaptureNewContext
    \/ CaptureNewContextThrows
    \/ CaptureNewPage
    \/ CaptureNewPageThrows
    \/ CaptureScreenshot
    \/ CaptureScreenshotThrows
    \/ CapturePushResult
    \/ CaptureStatThrows
    \/ CaptureCloseContext
    \/ CaptureCloseContextAfterThrow
    \/ PrintSummary
    \/ CloseBrowser

(***************************************************************************)
(* preparePageForCapture and waitForAssetSettle: the awaited calls in      *)
(* order.  The page decides how each call settles: a load-state wait is    *)
(* reached or times out, the in-page asset wait settles, is cut short by   *)
(* its timer, or the page.evaluate that carries it rejects (the execution  *)
(* context is destroyed by a navigation, the page crashes), and any other  *)
(* call may reject.                                                        *)
(***************************************************************************)
\* The awaited calls of preparePageForCapture, waitForAssetSettle in its place.
PrepareCalls ==
    <<"domcontentloaded", "networkidle", "settleDelay", "promoteLazyAssets",
      "triggerDeferredContent", "assetNetworkidle", "assetEvaluate", "addStyleTag",
      "hideEvaluate", "finalDelay">>

\* The calls written with .catch(() => undefined).
CaughtCalls == {"networkidle", "assetNetworkidle"}

\* The calls written without a catch.
UncaughtCalls == Range(PrepareCalls) \ CaughtCalls

PageBehaviours ==
    [networkidle      : {"idle", "timeout"},
     assetNetworkidle : {"idle", "timeout"},
     assetEvaluate    : {"settled", "timer", "rejected"},
     rejecting        : SUBSET (UncaughtCalls \ {"assetEvaluate"})]

PrepareIdle ==
    /\ ppc = "idle"
    /\ pageBehaviour = [networkidle |-> "idle", assetNetworkidle |-> "idle",
                        assetEvaluate |-> "settled", rejecting |-> {}]
    /\ prepareRaised = ""

\* captureUrl has navigated and calls preparePageForCapture.
PrepareStartState ==
    /\ ppc = PrepareCalls[1]
    /\ pageBehaviour \in PageBehaviours
    /\ prepareRaised = ""

\* Whether the promise of a call rejects for the page.
CallRejects(call) ==
    \/ call \in pageBehaviour.rejecting
    \/ call = "networkidle" /\ pageBehaviour.networkidle = "timeout"
    \/ call = "assetNetworkidle" /\ pageBehaviour.assetNetworkidle = "timeout"
    \/ call = "assetEvaluate" /\ pageBehaviour.assetEvaluate = "rejected"

\* The position after a call that did not raise.
AfterCall(call) ==
    IF call = PrepareCalls[Len(PrepareCalls)] THEN "returned"
    ELSE PrepareCalls[(CHOOSE i \in 1..Len(PrepareCalls) : PrepareCalls[i] = call) + 1]

\* Where preparePageForCapture is after an awaited call without a catch.
AfterAwait(call) == IF CallRejects(call) THEN "threw" ELSE AfterCall(call)

\* The call whose rejection left preparePageForCapture, after such a call.
RaisedAfterAwait(call) == IF CallRejects(call) THEN call ELSE prepareRaised

\* await page.waitForLoadState("domcontentloaded")
WaitDomContentLoaded ==
    /\ ppc = "domcontentloaded"
    /\ ppc' = AfterAwait("domcontentloaded")
    /\ prepareRaised' = RaisedAfterAwait("domcontentloaded")
    /\ UNCHANGED pageBehaviour
    /\ UNCHANGED notPrepare

\* await page.waitForLoadState("networkidle").catch(() => undefined): a rejection
\* is dropped.
WaitNetworkIdle ==
    /\ ppc = "networkidle"
    /\ ppc' = AfterCall("networkidle")
    /\ UNCHANGED <<pageBehaviour, prepareRaised>>
    /\ UNCHANGED notPrepare

\* await page.waitForTimeout(800)
SettleDelay ==
    /\ ppc = "settleDelay"
    /\ ppc' = AfterAwait("settleDelay")
    /\ prepareRaised' = RaisedAfterAwait("settleDelay")
    /\ UNCHANGED pageBehaviour
    /\ UNCHANGED notPrepare

\* await promoteLazyAssets(page)
PromoteLazyAssets ==
    /\ ppc = "promoteLazyAssets"
    /\ ppc' = AfterAwait("promoteLazyAssets")
    /\ prepareRaised' = RaisedAfterAwait("promoteLazyAssets")
    /\ UNCHANGED pageBehaviour
    /\ UNCHANGED notPrepare

\* await triggerDeferredContent(page)
TriggerDeferredContent ==
    /\ ppc = "triggerDeferredContent"
    /\ ppc' = AfterAwait("triggerDeferredContent")
    /\ prepareRaised' = RaisedAfterAwait("triggerDeferredContent")
    /\ UNCHANGED pageBehaviour
    /\ UNCHANGED notPrepare

\* waitForAssetSettle: await page.waitForLoadState("networkidle").catch(() => undefined)
AssetSettleNetworkIdle ==
    /\ ppc = "assetNetworkidle"
    /\ ppc' = AfterCall("assetNetworkidle")
    /\ UNCHANGED <<pageBehaviour, prepareRaised>>
    /\ UNCHANGED notPrepare

\* waitForAssetSettle: await page.evaluate(async (timeoutMs) => { ... }), written
\* without a catch: a rejection leaves waitForAssetSettle and preparePageForCapture.
AssetSettleEvaluate ==
    /\ ppc = "assetEvaluate"
    /\ ppc' = AfterAwait("assetEvaluate")
    /\ prepareRaised' = RaisedAfterAwait("assetEvaluate")
    /\ UNCHANGED pageBehaviour
    /\ UNCHANGED notPrepare

\* await page.addStyleTag({ ... })
AddStyleTag ==
    /\ ppc = "addStyleTag"
    /\ ppc' = AfterAwait("addStyleTag")
    /\ prepareRaised' = RaisedAfterAwait("addStyleTag")
    /\ UNCHANGED pageBehaviour
    /\ UNCHANGED notPrepare

\* await page.evaluate((selectors) => { ... }, excludedSelectors)
HideExcludedNodes ==
    /\ ppc = "hideEvaluate"
    /\ ppc' = AfterAwait("hideEvaluate")
    /\ prepareRaised' = RaisedAfterAwait("hideEvaluate")
    /\ UNCHANGED pageBehaviour
    /\ UNCHANGED notPrepare

\* await page.waitForTimeout(200)
FinalDelay ==
    /\ ppc = "finalDelay"
    /\ ppc' = AfterAwait("finalDelay")
    /\ prepareRaised' = RaisedAfterAwait("finalDelay")
    /\ UNCHANGED pageBehaviour
    /\ UNCHANGED notPrepare

PrepareNext ==
    \/ WaitDomContentLoaded
    \/ WaitNetworkIdle
    \/ SettleDelay
    \/ PromoteLazyAssets
    \/ TriggerDeferredContent
    \/ AssetSettleNetworkIdle
    \/ AssetSettleEvaluate
    \/ AddStyleTag
    \/ HideExcludedNodes
    \/ FinalDelay

(***************************************************************************)
(* buildExcludedSelectors: the selectors hidden before a screenshot, from  *)
(* the --exclude-class and --exclude-id values parseCliArguments collected *)
(* (the items of splitCommaList: trimmed and not empty).                   *)
(***************************************************************************)
\* const DEFAULT_EXCLUDED_SELECTORS
DEFAULT_EXCLUDED_SELECTORS ==
    <<".weglot_switcher.country-selector.default.closed.wg-drop", ".weglot_switcher",
      ".vsc-initialized:not(html):not(body)", "#vsc-initialized">>

\* The characters /[^a-zA-Z0-9_-]/ does not match.
IdentifierChars == AlnumChars \cup LetterChars \cup {"_", "-"}

\* escapeCssIdentifier: value.replace(/([^a-zA-Z0-9_-])/g, "\\$1")
RECURSIVE EscapeFrom(_, _)
EscapeFrom(value, i) ==
    IF i > Len(value) THEN ""
    ELSE (IF CharAt(value, i) \in IdentifierChars THEN "" ELSE "\\")
            \o CharAt(value, i) \o EscapeFrom(value, i + 1)

escapeCssIdentifier(value) == EscapeFrom(value, 1)

\* .replace(/^\./u, "") and .replace(/^#/u, ""): drop one leading prefix character.
StripLeading(str, prefix) == IF StartsWith(str, prefix) THEN From(str, 2) ELSE str

\* name.trim().replace(/^\./u, "") for every name, with prefix "." (or "#" for ids).
StripEach(names, prefix) == [i \in 1..Len(names) |-> StripLeading(Trim(names[i]), prefix)]

\* .filter(Boolean): the empty strings are dropped.
FilterBoolean(names) == SelectSeq(names, LAMBDA name : name # "")

\* .map((name) => `.${escapeCssIdentifier(name)}`), with prefix "." (or "#" for ids).
PrefixEach(names, prefix) == [i \in 1..Len(names) |-> prefix \o escapeCssIdentifier(names[i])]

\* The variant that keeps the names that are empty once trimmed and stripped.
ClassNamesUnfiltered(classNames) == PrefixEach(StripEach(classNames, "."), ".")

classNamesToSelectors(classNames) ==
    PrefixEach(FilterBoolean(StripEach(classNames, ".")), ".")

idsToSelectors(ids) == PrefixEach(FilterBoolean(StripEach(ids, "#")), "#")

buildExcludedSelectors(opts) ==
    uniqueOrdered(DEFAULT_EXCLUDED_SELECTORS
                    \o classNamesToSelectors(opts.excludeClasses)
                    \o idsToSelectors(opts.excludeIds))

\* The most values of each of --exclude-class and --exclude-id.
MaxExcludes == 2

ExcludeClassPool == {"cookie-banner", ".cookie-banner", ".", "nav.top", ".weglot_switcher", "a b"}

ExcludeIdPool == {"modal-root", "#modal-root", "#", "vsc-initialized", "cookie-banner"}

SelectorsIdle ==
    /\ excludeOptions = [excludeClasses |-> <<>>, excludeIds |-> <<>>]
    /\ builtSelectors = [status |-> "idle"]

SelectorsStartState ==
    /\ excludeOptions \in [excludeClasses : SeqsUpTo(ExcludeClassPool, MaxExcludes),
                           excludeIds     : SeqsUpTo(ExcludeIdPool, MaxExcludes)]
    /\ builtSelectors = [status |-> "pending"]

\* run: const excludedSelectors = buildExcludedSelectors(options)
BuildSelectors ==
    /\ builtSelectors.status = "pending"
    /\ builtSelectors' = [status |-> "returned", value |-> buildExcludedSelectors(excludeOptions)]
    /\ UNCHANGED excludeOptions
    /\ UNCHANGED notSelectors

SelectorsNext == BuildSelectors

(***************************************************************************)
(* Specifications.                                                         *)
(***************************************************************************)
ScrollInit == ScrollStartState /\ CrawlIdle /\ KeysIdle /\ SeedsIdle /\ ExtractIdle /\ NormalizeIdle /\ CliIdle /\ CaptureIdle /\ PrepareIdle /\ SelectorsIdle

CrawlInit == ScrollIdle /\ CrawlStartState /\ KeysIdle /\ SeedsIdle /\ ExtractIdle /\ NormalizeIdle /\ CliIdle /\ CaptureIdle /\ PrepareIdle /\ SelectorsIdle

KeysInit == ScrollIdle /\ CrawlIdle /\ KeysStartState /\ SeedsIdle /\ ExtractIdle /\ NormalizeIdle /\ CliIdle /\ CaptureIdle /\ PrepareIdle /\ SelectorsIdle

SeedsInit == ScrollIdle /\ CrawlIdle /\ KeysIdle /\ SeedsStartState /\ ExtractIdle /\ NormalizeIdle /\ CliIdle /\ CaptureIdle /\ PrepareIdle /\ SelectorsIdle

ExtractInit == ScrollIdle /\ CrawlIdle /\ KeysIdle /\ SeedsIdle /\ ExtractStartState /\ NormalizeIdle /\ CliIdle /\ CaptureIdle /\ PrepareIdle /\ SelectorsIdle

NormalizeInit == ScrollIdle /\ CrawlIdle /\ KeysIdle /\ SeedsIdle /\ ExtractIdle /\ NormalizeStartState /\ CliIdle /\ CaptureIdle /\ PrepareIdle /\ SelectorsIdle

ScrollSpec == ScrollInit /\ [][ScrollNext]_vars

\* The event loop resumes the page function after every timer delay, so a step
\* that can be taken is eventually taken.
FairScrollSpec == ScrollSpec /\ WF_vars(ScrollNext)

\* C1: triggerDeferredContent terminates for every page behaviour: it always
\* reaches the final scroll-to-top and returns.
TriggerDeferredContentTerminates == <>(spc = "done")

\* C26: in the scroll-stabilization loop, a round whose end height is at most the
\* recorded maximum + 2 adds one to the stable counter and leaves the maximum, any
\* other round resets the counter to 0 and records its height as the maximum; the
\* loop stops exactly after the first round at which the counter is 3, or when 36
\* rounds have run.  So the maximum never decreases, at least 3 rounds run, and an
\* exit before round 36 follows 3 rounds that did not grow beyond the maximum + 2.
ScrollRoundAccounting ==
    /\ [][/\ maxSeenHeight' >= maxSeenHeight
          /\ spc = "endRound"
                => /\ IF lastHeight' <= maxSeenHeight + HeightTolerance
                      THEN stableRounds' = stableRounds + 1 /\ maxSeenHeight' = maxSeenHeight
                      ELSE stableRounds' = 0 /\ maxSeenHeight' = lastHeight'
                   /\ IF stableRounds' = DEFAULT_FULLLOAD_STABLE_ROUNDS
                      THEN spc' = "toTop" /\ round' = round
                      ELSE spc' = "for" /\ round' = round + 1]_vars
    /\ [](/\ spc \in {"while", "endRound"}
                => /\ round < DEFAULT_FULLLOAD_MAX_ROUNDS
                   /\ stableRounds < DEFAULT_FULLLOAD_STABLE_ROUNDS
          /\ spc = "for" => stableRounds < DEFAULT_FULLLOAD_STABLE_ROUNDS
          /\ stableRounds <= round + 1
          /\ spc \in {"toTop", "done"}
                => \/ /\ stableRounds = DEFAULT_FULLLOAD_STABLE_ROUNDS
                      /\ round + 1 >= DEFAULT_FULLLOAD_STABLE_ROUNDS
                      /\ round + 1 <= DEFAULT_FULLLOAD_MAX_ROUNDS
                      /\ lastHeight <= maxSeenHeight + HeightTolerance
                   \/ /\ stableRounds < DEFAULT_FULLLOAD_STABLE_ROUNDS
                      /\ round = DEFAULT_FULLLOAD_MAX_ROUNDS)

\* The loop ran all 36 rounds on a page that kept growing and never saw three
\* stable rounds in a row.
ScrollRoundAccountingWitness ==
    /\ spc = "done"
    /\ round = DEFAULT_FULLLOAD_MAX_ROUNDS
    /\ stableRounds = 2
    /\ maxSeenHeight > HeightTolerance

CrawlSpec == CrawlInit /\ [][CrawlNext]_vars

\* Every await of the crawl loop settles (navigation has a timeout), so the loop
\* keeps taking steps while one can be taken.
FairCrawlSpec == CrawlSpec /\ WF_vars(CrawlNext)

\* C2: crawlTargets terminates whenever every navigation and link query returns:
\* eventually the frontier is empty or the discovered count has reached the cap,
\* and the discovered list is returned (a link query that throws ends the crawl too).
CrawlTerminates ==
    <>(\/ cpc = "failed"
       \/ /\ cpc = "done"
          /\ (queue = <<>> \/ Cardinality(discoveredSet) >= maxPages))

\* A crawl that met a navigation failure and discovered pages has returned.
CrawlTerminatesWitness ==
    /\ cpc = "done"
    /\ navFailed # {}
    /\ Len(discovered) > Len(seedUrls)

\* C3: for a duplicate-free seed list and a cap M >= seed count, the number of
\* visited/discovered URLs never exceeds M and the frontier holds only visited URLs.
CrawlWithinCap ==
    (cpc # "idle" /\ IsDuplicateFree(seedUrls) /\ settings.maxPages >= Len(seedUrls))
        => /\ Cardinality(discoveredSet) <= settings.maxPages
           /\ Len(discovered) <= settings.maxPages
           /\ \A i \in 1..Len(queue) : queue[i].url \in discoveredSet

\* The crawl returned with the cap reached by discovery and the frontier not empty.
CrawlWithinCapWitness ==
    /\ cpc = "done"
    /\ settings.maxPages >= Len(seedUrls)
    /\ Len(discovered) = settings.maxPages
    /\ Len(discovered) > Len(seedUrls)
    /\ queue # <<>>

\* C4: with --crawl, the number of URLs resolved for capture after the crawl is at
\* most the --max-pages value, for every set of seed URLs.
CrawlResultWithinMaxPages == cpc = "done" => Len(discovered) <= settings.maxPages

\* The URLs reachable from a seed in at most k hops along the links pages served.
RECURSIVE ReachableWithin(_)
ReachableWithin(k) ==
    IF k = 0 THEN Range(seedUrls)
    ELSE LET near == ReachableWithin(k - 1)
         IN  near \cup {e[2] : e \in {f \in pageLinks : f[1] \in near}}

\* C5: every discovered URL is reachable from a seed in at most D link hops, every
\* item ever placed in the frontier has depth <= D, and with D = 0 the discovered
\* list is exactly the seed list.
CrawlDepthBound ==
    cpc # "idle"
        => /\ \A item \in placed : item.depth <= settings.crawlDepth
           /\ Range(discovered) \subseteq ReachableWithin(settings.crawlDepth)
           /\ (settings.crawlDepth = 0 => discovered = seedUrls)

\* The crawl returned a URL that is two hops, and no less, from the seeds.
CrawlDepthBoundWitness ==
    /\ cpc = "done"
    /\ settings.crawlDepth = 2
    /\ \E u \in Range(discovered) : u \notin ReachableWithin(1)

\* Whether the origin policy lets a link in: same-origin-only is off, or the
\* origin of the link is the origin of a seed.
OriginAdmits(link) ==
    \/ ~settings.sameOriginOnly
    \/ \E i \in 1..Len(seedUrls) : Origin(seedUrls[i]) = Origin(link)

\* The URLs of the items shifted off the queue followed by those still in it.
FrontierHistory ==
    [i \in 1..Len(visits) |-> visits[i].url] \o [i \in 1..Len(queue) |-> queue[i].url]

\* The links of a list that are not in the discovered list, in the order of the list.
FreshLinks(links) == SelectSeq(links, LAMBDA link : link \notin Range(discovered))

\* C25: the list crawlTargets builds starts with the seeds in seed order and only
\* grows at its end; pages leave the frontier in the order they entered it, which
\* is the order of the list, so the depths of the processed pages never decrease;
\* and the links of one page are appended in the order the page returned them.
CrawlDiscoveryOrder ==
    /\ [](cpc # "idle"
            => /\ SubSeq(discovered, 1, Len(seedUrls)) = seedUrls
               /\ FrontierHistory = SubSeq(discovered, 1, Len(FrontierHistory))
               /\ \A i, j \in 1..Len(visits) : i <= j => visits[i].depth <= visits[j].depth)
    /\ [][discovered' # discovered
            => /\ visits'[Len(visits')].url = Head(queue).url
               /\ \E n \in 1..Len(FreshLinks(visits'[Len(visits')].links)) :
                     discovered' = discovered
                                     \o SubSeq(FreshLinks(visits'[Len(visits')].links), 1, n)]_vars

\* The crawl returned after a page at depth 0 added two links in one step and a
\* page at depth 1 added another.
CrawlDiscoveryOrderWitness ==
    /\ cpc = "done"
    /\ Len(discovered) >= Len(seedUrls) + 3
    /\ \E i, j \in 1..Len(visits) :
          /\ visits[i].depth = 0
          /\ visits[i].outcome = "expanded"
          /\ Len(visits[i].links) >= 2
          /\ discovered[Len(seedUrls) + 1] = visits[i].links[1]
          /\ discovered[Len(seedUrls) + 2] = visits[i].links[2]
          /\ visits[j].depth = 1
          /\ visits[j].outcome = "expanded"
          /\ discovered[Len(discovered)] \in Range(visits[j].links)

\* A URL without its fragment.
WithoutFragment(url) == [url EXCEPT !.hash = ""]

\* No two entries of a list of URLs are the same URL up to the fragment.
DistinctUpToFragment(urls) ==
    \A i, j \in 1..Len(urls) : WithoutFragment(urls[i]) = WithoutFragment(urls[j]) => i = j

\* C27: in a crawl from a duplicate-free seed list no URL enters the visited set,
\* the discovered list or the frontier more than once, links that differ only by
\* their fragment counting as one URL: the list built has no duplicates and no URL
\* is navigated twice.
CrawlVisitsOnce ==
    /\ [](cpc # "idle"
            => /\ DistinctUpToFragment(discovered)
               /\ DistinctUpToFragment(FrontierHistory)
               /\ Range(discovered) = discoveredSet
               /\ Cardinality(discoveredSet) = Len(discovered)
               /\ Range(FrontierHistory) \subseteq discoveredSet)
    /\ [][/\ discoveredSet \subseteq discoveredSet'
          /\ \A i \in (Len(queue) + Len(visits) + 1)..Len(FrontierHistory') :
                FrontierHistory'[i] \notin discoveredSet]_vars

\* The crawl returned after a page served a link to a URL that a page expanded
\* before it had already added, or to a seed.
CrawlVisitsOnceWitness ==
    /\ cpc = "done"
    /\ Len(discovered) > Len(seedUrls)
    /\ \E i, j \in 1..Len(visits) :
          /\ i < j
          /\ visits[i].outcome = "expanded"
          /\ visits[j].outcome = "expanded"
          /\ \E link \in Range(visits[j].links) :
                link \in Range(visits[i].links) \cup Range(seedUrls)

\* C29: a URL whose navigation fails during the crawl stays in the discovered
\* list, at its place: nothing is ever taken out of the list, so the URL is in the
\* list crawlTargets returns and becomes a capture target.
FailedNavigationStaysDiscovered ==
    /\ [](cpc # "idle"
            => /\ navFailed \subseteq Range(discovered)
               /\ \A i \in 1..Len(visits) :
                     visits[i].outcome = "failed" => visits[i].url = discovered[i])
    /\ [][/\ Len(discovered') >= Len(discovered)
          /\ SubSeq(discovered', 1, Len(discovered)) = discovered]_vars

\* The crawl returned a list that holds a URL it found on a page and then failed
\* to load.
FailedNavigationStaysDiscoveredWitness ==
    /\ cpc = "done"
    /\ \E url \in navFailed : url \in Range(discovered) \ Range(seedUrls)

\* The links pages served that pass the filters of collectLinksFromPage (scheme,
\* origin policy, asset extension), as <<page, link>>.
FilteredPageLinks ==
    {e \in pageLinks : PassesLinkFilters(e[2], allowedOrigins, settings.sameOriginOnly)}

\* The URLs reachable from a seed in at most k hops along those links.
RECURSIVE FilteredReachableWithin(_)
FilteredReachableWithin(k) ==
    IF k = 0 THEN Range(seedUrls)
    ELSE LET near == FilteredReachableWithin(k - 1)
         IN  near \cup {e[2] : e \in {f \in FilteredPageLinks : f[1] \in near}}

\* The number of hops of the shortest such path to a URL that has one.
HopDistance(url) ==
    CHOOSE k \in 0..MaxCrawlDepth + 1 :
        /\ url \in FilteredReachableWithin(k)
        /\ k > 0 => url \notin FilteredReachableWithin(k - 1)

\* C30: a crawl that returns fewer URLs than the cap returns every URL reachable
\* from a seed in at most D hops along links that pass the filters, through pages
\* that loaded: every page was taken off the frontier at the depth of its shortest
\* path, so none within D - 1 hops was left unexpanded for having been seen deeper.
CrawlComplete ==
    (cpc = "done" /\ Len(discovered) < settings.maxPages)
        => /\ queue = <<>>
           /\ FilteredReachableWithin(settings.crawlDepth) \subseteq Range(discovered)
           /\ \A i \in 1..Len(visits) :
                 /\ visits[i].depth = HopDistance(visits[i].url)
                 /\ visits[i].outcome = "leaf" => visits[i].depth = settings.crawlDepth
           /\ Range(discovered) = {visits[i].url : i \in 1..Len(visits)}

\* A crawl of depth 2 returned under the cap after a navigation failure, with a
\* page left unexpanded at depth 2 and a URL one hop from a seed that a page one
\* hop from a seed links to as well.
CrawlCompleteWitness ==
    /\ cpc = "done"
    /\ Len(discovered) < settings.maxPages
    /\ settings.crawlDepth = 2
    /\ navFailed # {}
    /\ \E i \in 1..Len(visits) : visits[i].outcome = "leaf" /\ visits[i].depth = 2
    /\ \E e \in FilteredPageLinks :
          /\ e[1] # e[2]
          /\ HopDistance(e[1]) = 1
          /\ HopDistance(e[2]) = 1

\* C8: an http(s) non-asset link found on an expanded page is admitted to the
\* discovered list (cap permitting) if and only if same-origin-only is false or its
\* origin is the origin of a seed; the allowed-origin set stays the seeds' origins.
SameOriginAdmission ==
    [][cpc = "loop"
        => /\ allowedOrigins' = AllowedOrigins(seedUrls)
           /\ \A e \in pageLinks' \ pageLinks :
                 isLikelyHtmlPage(e[2])
                    => /\ e[2] \in discoveredSet' => OriginAdmits(e[2])
                       /\ (OriginAdmits(e[2]) /\ Cardinality(discoveredSet') < maxPages)
                             => e[2] \in discoveredSet']_vars

\* Under same-origin-only a page served a cross-origin page link that was left out
\* and a same-origin link that was admitted, with room left under the cap.
SameOriginAdmissionWitness ==
    /\ cpc = "done"
    /\ settings.sameOriginOnly
    /\ Cardinality(discoveredSet) < maxPages
    /\ \E e \in pageLinks :
          /\ isLikelyHtmlPage(e[2])
          /\ Origin(e[2]) \notin allowedOrigins
          /\ e[2] \notin discoveredSet
    /\ \E e \in pageLinks : e[2] \in discoveredSet \ Range(seedUrls)

\* C9: when navigation to a dequeued URL fails the node is skipped: the crawl goes
\* on, none of its links are added, and the state is the one an expansion of a page
\* without links leaves (the node removed from the frontier, nothing else changed).
NavigationFailureSkipsNode ==
    [][navFailed' # navFailed
        => /\ cpc' = "loop"
           /\ pageLinks' = pageLinks
           /\ LET st == AdmitLinks(collectLinksFromPage(<<>>, Head(queue).url, allowedOrigins,
                                                        settings.sameOriginOnly),
                                   [discoveredSet |-> discoveredSet,
                                    discovered    |-> discovered,
                                    queue         |-> Tail(queue)],
                                   Head(queue).depth, maxPages)
              IN  /\ discovered' = st.discovered
                  /\ discoveredSet' = st.discoveredSet
                  /\ queue' = st.queue
                  /\ discovered' = discovered
                  /\ queue' = Tail(queue)]_vars

\* The first seed failed to load and a later page was still expanded.
NavigationFailureSkipsNodeWitness ==
    /\ cpc = "done"
    /\ seedUrls[1] \in navFailed
    /\ pageLinks # {}
    /\ Len(discovered) > Len(seedUrls)

KeysSpec == KeysInit /\ [][KeysNext]_vars

\* C6: within one run resolveOutputKey never returns the same key twice: the keys
\* assigned to the targets are pairwise distinct.
OutputKeysDistinct == IsDuplicateFree(outputKeys)

\* C7: among the targets that resolve to the same base key k, the first one
\* processed is assigned exactly k.
FirstOfBaseKeyGetsBaseKey ==
    \A i \in 1..Len(keyUrls) :
        (\A j \in 1..(i - 1) : resolvePageKey(keyUrls[j]) # resolvePageKey(keyUrls[i]))
            => outputKeys[i] = resolvePageKey(keyUrls[i])

SeedsSpec == SeedsInit /\ [][SeedsNext]_vars

\* The position of the first occurrence of value in list.
FirstOccurrence(list, value) ==
    CHOOSE i \in 1..Len(list) : list[i] = value /\ \A j \in 1..(i - 1) : list[j] # value

\* The concatenation the seed list is built from: the normalized positional URLs
\* in argument order (the default URL when there is no argument at all), then the
\* URLs each file's extraction produced, in file-argument order.
SeedConcatenation ==
    LET given == IF Len(options.positionalUrls) = 0 /\ Len(options.urlFiles) = 0
                 THEN <<DEFAULT_PAGE_URL>> ELSE options.positionalUrls
    IN  [i \in 1..Len(given) |-> NormalizedSeed[given[i]].value]
            \o Flatten([i \in 1..Len(options.urlFiles) |->
                            UrlFileResult[options.urlFiles[i]].value])

\* C10: resolveSeedUrls returns a duplicate-free list of normalized URLs ordered by
\* first occurrence in the concatenation of the positional URLs and the URLs of
\* each URL file.
SeedsOrderedByFirstOccurrence ==
    seedResult.status = "returned"
        => LET urls == seedResult.value
               concatenation == SeedConcatenation
           IN  /\ IsDuplicateFree(urls)
               /\ \A i \in 1..Len(urls) : NormalizedSeed[urls[i]] = Returned(urls[i])
               /\ Range(urls) = Range(concatenation)
               /\ \A i, j \in 1..Len(urls) :
                     i < j => FirstOccurrence(concatenation, urls[i])
                                < FirstOccurrence(concatenation, urls[j])

\* A seed list was returned from positional URLs and URL files that repeat a URL.
SeedsOrderedByFirstOccurrenceWitness ==
    /\ seedResult.status = "returned"
    /\ Len(options.positionalUrls) > 0
    /\ Len(options.urlFiles) > 1
    /\ Len(seedResult.value) >= 3
    /\ Len(seedResult.value) < Len(SeedConcatenation)

ExtractSpec == ExtractInit /\ [][ExtractNext]_vars

\* The URLs that occur in one line of the text: what that line alone yields.
UrlsOfLine(line) == Range(extractUrlsFromText(<<line>>))

\* The first line of the text in which url occurs.
FirstLineOf(url) ==
    CHOOSE k \in 1..Len(content) :
        /\ url \in UrlsOfLine(content[k])
        /\ \A h \in 1..(k - 1) : url \notin UrlsOfLine(content[h])

\* C11: extractUrlsFromText returns each distinct normalized URL once, in the
\* order of first occurrence in the text: a URL whose first occurrence is on an
\* earlier line than another URL's comes before it in the output, whichever
\* pattern matched either of them.
ExtractedInTextOrder ==
    extracted.status = "returned"
        => /\ IsDuplicateFree(extracted.value)
           /\ Range(extracted.value) = UNION {UrlsOfLine(content[k]) : k \in 1..Len(content)}
           /\ \A i, j \in 1..Len(extracted.value) :
                 FirstLineOf(extracted.value[i]) < FirstLineOf(extracted.value[j]) => i < j

NormalizeSpec == NormalizeInit /\ [][NormalizeNext]_vars

\* C12: normalizeCaptureUrl is idempotent: when it returns for an input, it
\* returns for its own result too, and returns that same string.
NormalizeIdempotent ==
    normalizedTwice.status \in {"returned", "threw"}
        => normalizedTwice = [status |-> "returned", value |-> normalizedOnce.value]

\* The second call has returned for an input that the first call changed: the
\* input had no scheme, a fragment and surrounding whitespace or capitals.
NormalizeIdempotentWitness ==
    /\ normalizedTwice.status = "returned"
    /\ ~HasSchemePrefix(Trim(rawUrl))
    /\ "#" \in CharsOf(rawUrl)
    /\ normalizedOnce.value # rawUrl
    /\ normalizedOnce.value = "https://membershealth.ca/programs"

\* The seed resolver and the crawl, each from its own start: the two places
\* where the run takes URLs in.
HeldUrlsInit == SeedsInit \/ CrawlInit

CliInit == ScrollIdle /\ CrawlIdle /\ KeysIdle /\ SeedsIdle /\ ExtractIdle /\ NormalizeIdle /\ CliStartState /\ CaptureIdle /\ PrepareIdle /\ SelectorsIdle

CaptureInit == ScrollIdle /\ CrawlIdle /\ KeysIdle /\ SeedsIdle /\ ExtractIdle /\ NormalizeIdle /\ CliIdle /\ CaptureStartState /\ PrepareIdle /\ SelectorsIdle

PrepareInit == ScrollIdle /\ CrawlIdle /\ KeysIdle /\ SeedsIdle /\ ExtractIdle /\ NormalizeIdle /\ CliIdle /\ CaptureIdle /\ PrepareStartState /\ SelectorsIdle

SelectorsInit == ScrollIdle /\ CrawlIdle /\ KeysIdle /\ SeedsIdle /\ ExtractIdle /\ NormalizeIdle /\ CliIdle /\ CaptureIdle /\ PrepareIdle /\ SelectorsStartState

HeldUrlsNext == SeedsNext \/ CrawlNext

HeldUrlsSpec == HeldUrlsInit /\ [][HeldUrlsNext]_vars

\* The URLs the crawl holds: seeds, frontier items past and present, discovered
\* URLs (the capture targets of a crawling run).
CrawlHeldUrls ==
    Range(seedUrls) \cup {item.url : item \in Range(queue) \cup placed}
        \cup Range(discovered) \cup discoveredSet

\* The seed URLs resolveSeedUrls returned (the capture targets of a run that
\* does not crawl).
SeedHeldUrls == IF seedResult.status = "returned" THEN Range(seedResult.value) ELSE {}

IsHttpUrlWithoutFragment(str) ==
    /\ StartsWith(str, "http://") \/ StartsWith(str, "https://")
    /\ "#" \notin CharsOf(str)

\* C13: every URL held as a seed, a frontier item, a discovered URL or a capture
\* target has scheme http or https and no fragment, whether it came from a
\* positional argument, a URL file, the default or a crawled link.
HeldUrlsAreHttpWithoutFragment ==
    /\ \A str \in SeedHeldUrls : IsHttpUrlWithoutFragment(str)
    /\ \A url \in CrawlHeldUrls :
          /\ url.protocol \in SUPPORTED_PROTOCOLS
          /\ url.hash = ""
          /\ IsHttpUrlWithoutFragment(UrlToString(url))

\* A crawl returned a URL that only a cross-origin link with a fragment leads to.
HeldUrlsAreHttpWithoutFragmentWitness ==
    /\ cpc = "done"
    /\ Url("https:", "b.com", "/q", "") \in Range(discovered)
    /\ HomeB \notin Range(seedUrls)

\* C28: whenever resolveSeedUrls returns, the list is not empty: without positional
\* URL and URL file it is the built-in default URL alone, and every URL file has
\* contributed at least one URL (or the resolution failed); so the target list,
\* the seed list or the list the crawl builds from it, is never empty.
SeedListNeverEmpty ==
    /\ seedResult.status = "returned"
          => /\ Len(seedResult.value) >= 1
             /\ (options.positionalUrls = <<>> /\ options.urlFiles = <<>>)
                   => seedResult.value = <<NormalizedSeed[DEFAULT_PAGE_URL].value>>
             /\ \A i \in 1..Len(options.urlFiles) :
                   /\ UrlFileResult[options.urlFiles[i]].ok
                   /\ \E url \in Range(UrlFileResult[options.urlFiles[i]].value) :
                         NormalizedSeed[url].value \in Range(seedResult.value)
    /\ cpc # "idle"
          => /\ Len(seedUrls) >= 1
             /\ Len(discovered) >= Len(seedUrls)
             /\ Range(seedUrls) \subseteq Range(discovered)

\* A seed list was returned from two URL files and no positional URL.
SeedListNeverEmptyWitness ==
    /\ seedResult.status = "returned"
    /\ options.positionalUrls = <<>>
    /\ Len(options.urlFiles) = 2
    /\ options.urlFiles[1] # options.urlFiles[2]

CliSpec == CliInit /\ [][CliNext]_vars

\* parseCliArguments has returned or thrown.
CliSettled == cliResult.status \in {"returned", "threw"}

\* Two calls ended the same way: both threw, or both returned the same options.
SameParse(result, other) ==
    /\ result.ok = other.ok
    /\ result.ok => result.value = other.value

\* What parseCliArguments did with argv, read back from the state of the run.
ObservedParse == [ok |-> cliResult.status = "returned", value |-> cliResult.value]

\* arg with the --crawl spelling in place of the --loop spelling.
CrawlSpelling(arg) ==
    IF arg = "--loop" THEN "--crawl"
    ELSE IF arg = "--loop-depth" \/ StartsWith(arg, "--loop-depth=")
    THEN "--crawl-depth" \o From(arg, Len("--loop-depth") + 1)
    ELSE arg

CrawlSpellings(args) == [i \in 1..Len(args) |-> CrawlSpelling(args[i])]

\* C14: parseCliArguments accepts --loop as an alias of --crawl and --loop-depth
\* as an alias of --crawl-depth: it does with every argument list what it does
\* with the same list in the --crawl spellings.
LoopAliasesAccepted ==
    CliSettled => SameParse(ObservedParse, parseCliArguments(CrawlSpellings(argv)))

\* args with every --same-origin-only that is followed by true or false written
\* as the assignment --same-origin-only=<value>, read from position i on.
RECURSIVE SameOriginAssignmentsFrom(_, _)
SameOriginAssignmentsFrom(args, i) ==
    IF i > Len(args) THEN <<>>
    ELSE IF args[i] = "--same-origin-only" /\ NextArgument(args, i) \in {"true", "false"}
    THEN <<"--same-origin-only=" \o args[i + 1]>> \o SameOriginAssignmentsFrom(args, i + 2)
    ELSE <<args[i]>> \o SameOriginAssignmentsFrom(args, i + 1)

\* C15: parseCliArguments accepts the same-origin-only value as the next
\* argument: --same-origin-only false (or true) sets sameOriginOnly to that value
\* and the value is consumed, not recorded as a positional URL; the parse does
\* what it does with the assignment form --same-origin-only=false.
SameOriginOnlyValueConsumed ==
    CliSettled
        => SameParse(ObservedParse, parseCliArguments(SameOriginAssignmentsFrom(argv, 1)))

\* --mode=<value other than full>, or a bare --segments
IsRemovedMode(arg) ==
    \/ arg = "--segments"
    \/ StartsWith(arg, "--mode=") /\ From(arg, Len("--mode=") + 1) \notin {"", "full"}

RemovedModePositions == {i \in 1..Len(argv) : IsRemovedMode(argv[i])}

FirstRemovedMode == CHOOSE i \in RemovedModePositions : \A j \in RemovedModePositions : i <= j

NotSupportedErrors == {OnlyFullPageMode, SegmentedModeRemoved}

\* The arguments before position i.
ArgumentsBefore(i) == SubSeq(argv, 1, i - 1)

\* --mode full is accepted and changes no option: wherever the parse reaches a
\* --mode whose value is full, it goes on with the options it had.
FullModeChangesNothing ==
    \A i \in 1..Len(argv) :
        /\ \/ argv[i] = "--mode=full"
           \/ argv[i] = "--mode" /\ NextArgument(argv, i) = "full"
        /\ parseCliArguments(ArgumentsBefore(i)).ok
        => parseCliArguments(ArgumentsBefore(IF argv[i] = "--mode" THEN i + 2 ELSE i + 1))
               = parseCliArguments(ArgumentsBefore(i))

\* C16 as stated: whenever the argument list holds --mode=<not full> or a bare
\* --segments, the run fails with the not-supported error and launches no browser,
\* whatever the other arguments are; --mode full is accepted and changes nothing.
RemovedModeAlwaysNotSupported ==
    /\ RemovedModePositions # {}
        => /\ ~browserLaunched
           /\ CliSettled => cliResult.status = "threw" /\ cliResult.value \in NotSupportedErrors
           /\ rpc = "exited" => exitCode = 1 /\ errorPrinted \in NotSupportedErrors
    /\ CliSettled => FullModeChangesNothing

\* C16: whenever the argument list holds --mode=<not full> or a bare --segments,
\* the run fails with exit code 1 before any browser launch; the error is the
\* not-supported error when every argument before the first such argument is
\* accepted, and the error of an earlier argument otherwise.  --mode full is
\* accepted and changes no option.
RemovedModeFailsRun ==
    /\ RemovedModePositions # {}
        => /\ ~browserLaunched
           /\ ~usagePrinted
           /\ CliSettled => cliResult.status = "threw"
           /\ rpc = "exited" => exitCode = 1 /\ errorPrinted = cliResult.value
           /\ CliSettled /\ parseCliArguments(ArgumentsBefore(FirstRemovedMode)).ok
                 => cliResult.value \in NotSupportedErrors
    /\ CliSettled => FullModeChangesNothing

\* The run has ended with the not-supported error although --help came first and
\* a URL was given.
RemovedModeFailsRunWitness ==
    /\ rpc = "exited"
    /\ Len(argv) = 3
    /\ argv[1] = "--help"
    /\ argv[2] = "https://example.com"
    /\ IsRemovedMode(argv[3])
    /\ exitCode = 1
    /\ errorPrinted \in NotSupportedErrors

HelpArguments == {"--help", "-h"}

\* The positions of argv that hold --help or -h.
HelpPositions == {i \in 1..Len(argv) : argv[i] \in HelpArguments}

\* The positions where --help or -h is read as an argument of its own: --help
\* anywhere (it cannot be a flag's value), -h where the arguments before it are
\* accepted without it.
HelpFlagPositions ==
    {i \in HelpPositions : argv[i] = "--help" \/ parseCliArguments(ArgumentsBefore(i)).ok}

\* C17 as stated: whenever --help or -h is among the arguments, the run prints
\* the usage text, launches no browser and ends with exit code 0, whatever the
\* other arguments are.
HelpAlwaysPrintsUsage ==
    HelpPositions # {}
        => /\ ~browserLaunched
           /\ rpc = "exited" => usagePrinted /\ exitCode = 0

\* C17: whenever --help is among the arguments, or -h is where it is not taken as
\* the value of the flag before it, the run launches no browser; it prints the
\* usage text and ends with exit code 0 when every argument is accepted, and
\* prints the error of the rejected argument and ends with exit code 1 otherwise.
HelpPrintsUsageWhenAccepted ==
    HelpFlagPositions # {}
        => /\ ~browserLaunched
           /\ cliResult.status = "returned" => cliResult.value.help
           /\ rpc = "exited"
                 => IF cliResult.status = "returned"
                    THEN usagePrinted /\ exitCode = 0 /\ errorPrinted = ""
                    ELSE ~usagePrinted /\ exitCode = 1 /\ errorPrinted = cliResult.value

\* The run has printed the usage text and ended with exit code 0 for a crawl
\* request that ends in -h.
HelpPrintsUsageWhenAcceptedWitness ==
    /\ rpc = "exited"
    /\ Len(argv) = 3
    /\ argv[1] = "https://example.com"
    /\ argv[2] = "--crawl"
    /\ argv[3] = "-h"
    /\ usagePrinted
    /\ exitCode = 0

\* The flag names the usage text and the option list of the specification give.
DocumentedFlags ==
    { "--help", "--url-file", "--crawl", "--no-crawl", "--loop", "--crawl-depth",
      "--loop-depth", "--max-pages", "--same-origin-only", "--no-same-origin-only",
      "--exclude-class", "--exclude-id", "--output-dir", "--output", "--scale",
      "--timeout-ms", "--mode", "--segments" }

\* arg starts with -- and its name, the text before an "=", is not documented.
IsUndocumentedFlag(arg) == StartsWith(arg, "--") /\ Before(arg, {"="}) \notin DocumentedFlags

\* C18: every argument that starts with -- and is not a documented flag, spelled
\* exactly and optionally followed by =value, makes parseCliArguments fail: no
\* argument list that holds one is accepted.
UndocumentedFlagsRejected ==
    (\E i \in 1..Len(argv) : IsUndocumentedFlag(argv[i])) /\ CliSettled
        => cliResult.status = "threw"

CaptureSpec == CaptureInit /\ [][CaptureNext]_vars

\* C19: in every run, successful or not, every screenshot file the run has
\* written has been reported (source URL, output path, byte size) by the time the
\* process ends.
WrittenScreenshotsPrinted == kpc = "done" => written \subseteq printedResults

\* The capture contexts: every open context other than the one of the crawl.
OpenCaptureContexts == openContexts \ {CrawlContext}

\* C20: each capture runs in a context of its own, created right before it and
\* closed before the next one is created or the run ends, on success and on
\* failure alike: two contexts are never open at once, the context of the capture
\* under way is the one open, and none is open when the browser is closed.
OneContextAtATime ==
    /\ Cardinality(openContexts) <= 1
    /\ kpc \in {"newPage", "goto", "stat", "close", "closeAfterThrow"}
          => openContexts = {<<target, profile>>}
    /\ kpc \in {"newContext", "summary"} => openContexts = {}
    /\ leftOpen = {}

\* The captures of a run in the order of the two nested loops: the targets in
\* list order, the profiles of captureProfiles for each.
CaptureOrder ==
    [k \in 1..(targetCount * Len(captureProfiles)) |->
        <<((k - 1) \div Len(captureProfiles)) + 1, ((k - 1) % Len(captureProfiles)) + 1>>]

\* The captures that come before a capture in that order.
CapturesBefore(capture) ==
    SubSeq(CaptureOrder, 1, (capture[1] - 1) * Len(captureProfiles) + capture[2] - 1)

\* C21: captures happen one at a time in a fixed order: when a capture starts
\* (its context is created), every capture before it in target order and profile
\* order has finished and no other is under way, and the desktop capture of a
\* target has finished when its mobile capture starts.
CapturesOneAtATimeInOrder ==
    [][\A capture \in openContexts' \ (openContexts \cup {CrawlContext}) :
          /\ openContexts = {}
          /\ captureResults' = CapturesBefore(capture)
          /\ written' = Range(CapturesBefore(capture))
          /\ captureProfiles[capture[2]] = "fullpage-mobile-document"
                => \E desktop \in 1..Len(captureProfiles) :
                      /\ captureProfiles[desktop] = "fullpage-document"
                      /\ <<capture[1], desktop>> \in Range(captureResults')]_vars

\* The mobile capture of the second target is under way after the three captures
\* before it.
CapturesOneAtATimeInOrderWitness ==
    /\ kpc = "goto"
    /\ target = 2
    /\ captureProfiles[profile] = "fullpage-mobile-document"
    /\ captureResults = <<<<1, 1>>, <<1, 2>>, <<2, 1>>>>

\* C22: when navigation, page preparation or the screenshot of a capture fails,
\* the error propagates: the capture is not retried, no later profile or target is
\* captured, the browser is closed and the run ends with exit code 1.
CaptureFailureAbortsRun ==
    [][/\ (kpc = "goto" /\ kpc' # kpc /\ written' = written) => kpc' = "closeAfterThrow"
       /\ (kpc = "closeAfterThrow" \/ runFailed)
             => /\ kpc' \in {"finally", "done"}
                /\ runFailed'
                /\ openContexts' \subseteq openContexts
                /\ written' = written
                /\ captureResults' = captureResults
                /\ printedResults' = {}
                /\ <<target', profile'>> = <<target, profile>>
                /\ kpc' = "done" => (~browserOpen' /\ captureExit' = 1)]_vars

\* The mobile capture of the first of two targets has failed before its file was
\* written: the error is on its way out of captureUrl.
CaptureFailureAbortsRunWitness ==
    /\ kpc = "closeAfterThrow"
    /\ targetCount = 2
    /\ <<target, profile>> = <<1, 2>>
    /\ written = {<<1, 1>>}
    /\ openContexts = {<<1, 2>>}

PrepareSpec == PrepareInit /\ [][PrepareNext]_vars

\* C23: the best-effort waits of page preparation, the two network-idle waits and
\* the asset-settle wait for images and fonts, never raise: whatever happens inside
\* them, preparePageForCapture goes on with the next step.
BestEffortWaitsNeverRaise ==
    prepareRaised \notin {"networkidle", "assetNetworkidle", "assetEvaluate"}

\* The network-idle waits on their own never raise, and a timer that cuts the
\* in-page asset wait short does not raise either.
NetworkIdleWaitsNeverRaise ==
    /\ prepareRaised \notin CaughtCalls
    /\ (prepareRaised = "assetEvaluate" => pageBehaviour.assetEvaluate = "rejected")

SelectorsSpec == SelectorsInit /\ [][SelectorsNext]_vars

\* The "."-prefixed selector of an exclude-class input and the "#"-prefixed
\* selector of an exclude-id input.
SelectorOf(name, prefix) == prefix \o escapeCssIdentifier(StripLeading(Trim(name), prefix))

\* An input that names a class or an id: something is left of it once it is
\* trimmed and its leading "." or "#" is dropped.
NamesSomething(name, prefix) == StripLeading(Trim(name), prefix) # ""

ClassInputs == Range(excludeOptions.excludeClasses)

IdInputs == Range(excludeOptions.excludeIds)

\* C24 as stated: for every combination of exclude-class and exclude-id inputs the
\* list is duplicate-free and holds the four default selectors, the "."-prefixed
\* selector of every exclude-class input, the "#"-prefixed selector of every
\* exclude-id input, and nothing else.
SelectorForEveryInput ==
    builtSelectors.status = "returned"
        => /\ IsDuplicateFree(builtSelectors.value)
           /\ Range(builtSelectors.value) =
                 Range(DEFAULT_EXCLUDED_SELECTORS)
                    \cup {SelectorOf(name, ".") : name \in ClassInputs}
                    \cup {SelectorOf(value, "#") : value \in IdInputs}

\* C24: for every combination of exclude-class and exclude-id inputs the list is
\* duplicate-free and holds the four default selectors, the "."-prefixed selector
\* of every exclude-class input that names a class, the "#"-prefixed selector of
\* every exclude-id input that names an id, and nothing else; an input that is
\* nothing but "." or "#" adds no selector.
SelectorForEveryNamedInput ==
    builtSelectors.status = "returned"
        => /\ IsDuplicateFree(builtSelectors.value)
           /\ Range(builtSelectors.value) =
                 Range(DEFAULT_EXCLUDED_SELECTORS)
                    \cup {SelectorOf(name, ".") : name \in {n \in ClassInputs : NamesSomething(n, ".")}}
                    \cup {SelectorOf(value, "#") : value \in {v \in IdInputs : NamesSomething(v, "#")}}
           /\ \A i \in 1..Len(builtSelectors.value) :
                 /\ Len(builtSelectors.value[i]) >= 2
                 /\ CharAt(builtSelectors.value[i], 1) \in {".", "#"}
           /\ SubSeq(builtSelectors.value, 1, Len(DEFAULT_EXCLUDED_SELECTORS))
                 = DEFAULT_EXCLUDED_SELECTORS

\* The list was built from a class input that names nothing, a class given twice
\* under two spellings and an id with the name of the class.
SelectorForEveryNamedInputWitness ==
    /\ builtSelectors.status = "returned"
    /\ excludeOptions.excludeClasses = <<".", "nav.top">>
    /\ excludeOptions.excludeIds = <<"#modal-root", "modal-root">>
    /\ builtSelectors.value = DEFAULT_EXCLUDED_SELECTORS \o <<".nav\\.top", "#modal-root">>

====
